---- MODULE Spec2Model ----
(***************************************************************************)
(* A model of go-lib-mcp's server engine: the dispatcher (Handler.Handle   *)
(* and the per-method handlers) and the server runtime (Server.Run, its    *)
(* handler tasks, gracefulShutdown and Server.Close).                      *)
(***************************************************************************)
EXTENDS Integers, Sequences, FiniteSets, TLC

(***************************************************************************)
(* Bounds of the model.                                                    *)
(***************************************************************************)
\* envelopes the transport delivers during one Run
MaxReads == 2
\* calls of Server.Close the host makes
MaxCloses == 2
\* dispatches of one sequential session (HandleSpec)
MaxDispatch == 2
\* handler tasks calling Stdio.Write concurrently (WriteSpec)
MaxWriters == 2
\* bytes of the string given to LimitText, and the largest MaxBytes (TextSpec)
MaxLen == 4
\* the largest Head, Tail and MaxLines given to LimitText (TextSpec)
MaxLimit == 2
\* lines of the stream Stdio reads (ReadSpec)
MaxInput == 3

(***************************************************************************)
(* Envelopes.  An absent optional field is Absent; a nil *ID is NilID.     *)
(***************************************************************************)
Absent == ""
NilID == 0
\* ids are opaque and only compared: two distinct ones
Ids == {1, 2}

MethodInitialize == "initialize"
MethodInitialized == "notifications/initialized"
MethodPing == "ping"
MethodToolsList == "tools/list"
MethodToolsCall == "tools/call"
MethodResourcesList == "resources/list"
MethodResourcesRead == "resources/read"
MethodResourcesTemplates == "resources/templates/list"
MethodPromptsList == "prompts/list"
MethodPromptsGet == "prompts/get"

\* the ten cases of Handle's switch
KnownMethods ==
  { MethodInitialize, MethodInitialized, MethodPing, MethodToolsList,
    MethodToolsCall, MethodResourcesList, MethodResourcesRead,
    MethodResourcesTemplates, MethodPromptsList, MethodPromptsGet }

\* a method name outside the switch
UnknownMethod == "bogus/method"

\* the cases whose handler needs a provider
GatedMethods ==
  { MethodToolsList, MethodToolsCall, MethodResourcesList, MethodResourcesRead,
    MethodResourcesTemplates, MethodPromptsList, MethodPromptsGet }

\* the cases whose handler decodes params
ParamMethods ==
  { MethodInitialize, MethodToolsCall, MethodResourcesRead, MethodPromptsGet }

\* what msg.Params can hold: a payload of the method's shape, nothing, or
\* JSON of another shape
ParamShapes == {"valid", "absent", "mistyped"}

\* json.Unmarshal(msg.Params, &params) returns nil
Unmarshal(params) == params = "valid"

\* error codes of the jsonrpc package
MethodNotFound == "MethodNotFound"
InvalidParams == "InvalidParams"
InternalError == "InternalError"

\* jsonrpc.Message: no envelope (a nil *Message)
NilMsg ==
  [id |-> NilID, method |-> Absent, result |-> Absent, code |-> Absent,
   message |-> Absent, data |-> Absent]

\* msg.IsRequest(): the envelope has an id and a method
IsRequest(msg) == msg.id # NilID /\ msg.method # Absent

\* jsonrpc.NewResponse(id, result): the result envelope, or the error of
\* marshalling the result
NewResponse(id, result, encodable) ==
  IF encodable
  THEN [resp |-> [id |-> id, method |-> Absent, result |-> result,
                  code |-> Absent, message |-> Absent, data |-> Absent],
        err |-> Absent]
  ELSE [resp |-> NilMsg, err |-> "json: error calling MarshalJSON"]

\* jsonrpc.NewErrorResponse(id, code, message, data); a nil data is Absent
NewErrorResponse(id, code, message, data) ==
  [resp |-> [id |-> id, method |-> Absent, result |-> Absent,
             code |-> code, message |-> message, data |-> data],
   err |-> Absent]

(***************************************************************************)
(* Options: which providers are wired (non-nil).                           *)
(***************************************************************************)
Options == [Tools : BOOLEAN, Resources : BOOLEAN, Prompts : BOOLEAN]

\* what a provider call does: returns a result, returns an error, or returns
\* a result json.Marshal rejects (a Tool whose InputSchema is not JSON)
ProviderOutcomes == {"ok", "error", "unencodable"}
ProviderErrText == "provider failed"

(***************************************************************************)
(* The dispatcher.  A handler's outcome: the (resp, err) pair it returns,  *)
(* whether it panicked instead (a nil *msg.ID dereferenced), and whether   *)
(* it set h.initialized on the way.                                        *)
(***************************************************************************)
\* Handler.initialized, the handler's session state
VARIABLE initialized

Returns(pair, init) ==
  [resp |-> pair.resp, err |-> pair.err, panicked |-> FALSE, init |-> init]

Panics(init) ==
  [resp |-> NilMsg, err |-> Absent, panicked |-> TRUE, init |-> init]

\* an expression that evaluates *msg.ID
Deref(msg, init, pair) ==
  IF msg.id = NilID THEN Panics(init) ELSE Returns(pair, init)

\* the capability groups of protocol.ServerCapabilities
CapabilityNames == {"tools", "resources", "prompts"}

\* handleInitialize's caps: a group is set when its provider is non-nil
CapabilitiesMutant(o) ==
  (IF o.Tools THEN {"tools", "resources"} ELSE {})
    \cup (IF o.Resources THEN {"resources"} ELSE {})
    \cup (IF o.Prompts THEN {"prompts"} ELSE {})

Capabilities(o) ==
  (IF o.Tools THEN {"tools"} ELSE {})
    \cup (IF o.Resources THEN {"resources"} ELSE {})
    \cup (IF o.Prompts THEN {"prompts"} ELSE {})

\* protocol.InitializeResult: the protocol version and server info are
\* fixed, the capabilities are its only varying part
InitializeResult(caps) ==
  "InitializeResult{"
    \o (IF "tools" \in caps THEN "tools," ELSE "")
    \o (IF "resources" \in caps THEN "resources," ELSE "")
    \o (IF "prompts" \in caps THEN "prompts," ELSE "")
    \o "}"

handleInitializeMutant(msg, o) ==
  IF ~Unmarshal(msg.params)
  THEN Deref(msg, TRUE, NewErrorResponse(msg.id, InvalidParams, "invalid params", Absent))
  ELSE Deref(msg, TRUE, NewResponse(msg.id, InitializeResult(Capabilities(o)), TRUE))

handleInitialize(msg, o) ==
  IF ~Unmarshal(msg.params)
  THEN Deref(msg, FALSE, NewErrorResponse(msg.id, InvalidParams, "invalid params", Absent))
  ELSE Deref(msg, TRUE, NewResponse(msg.id, InitializeResult(Capabilities(o)), TRUE))

handlePingMutant(msg) ==
  Deref(msg, FALSE, [resp |-> [NilMsg EXCEPT !.id = msg.id], err |-> Absent])

handlePing(msg) ==
  Deref(msg, FALSE, NewResponse(msg.id, "PingResult", TRUE))

handleToolsListMutant(msg, o, p) ==
  IF ~initialized
  THEN Deref(msg, FALSE, NewErrorResponse(msg.id, InternalError, "not initialized", Absent))
  ELSE IF ~o.Tools
  THEN Deref(msg, FALSE, NewErrorResponse(msg.id, InternalError, "tools not supported", Absent))
  ELSE IF p = "error"
  THEN Deref(msg, FALSE, NewErrorResponse(msg.id, InternalError, ProviderErrText, Absent))
  ELSE Deref(msg, FALSE, NewResponse(msg.id, "ToolsListResult", p # "unencodable"))

handleToolsList(msg, o, p) ==
  IF ~o.Tools
  THEN Deref(msg, FALSE, NewErrorResponse(msg.id, InternalError, "tools not supported", Absent))
  ELSE IF p = "error"
  THEN Deref(msg, FALSE, NewErrorResponse(msg.id, InternalError, ProviderErrText, Absent))
  ELSE Deref(msg, FALSE, NewResponse(msg.id, "ToolsListResult", p # "unencodable"))

handleToolsCallMutant(msg, o, p) ==
  IF ~Unmarshal(msg.params)
  THEN Deref(msg, FALSE, NewErrorResponse(msg.id, InvalidParams, "invalid params", Absent))
  ELSE IF ~o.Tools
  THEN Deref(msg, FALSE, NewErrorResponse(msg.id, InternalError, "tools not supported", Absent))
  ELSE IF p = "error"
  THEN Deref(msg, FALSE, NewErrorResponse(msg.id, InternalError, ProviderErrText, Absent))
  ELSE Deref(msg, FALSE, NewResponse(msg.id, "ToolCallResult", TRUE))

handleToolsCall(msg, o, p) ==
  IF ~o.Tools
  THEN Deref(msg, FALSE, NewErrorResponse(msg.id, InternalError, "tools not supported", Absent))
  ELSE IF ~Unmarshal(msg.params)
  THEN Deref(msg, FALSE, NewErrorResponse(msg.id, InvalidParams, "invalid params", Absent))
  ELSE IF p = "error"
  THEN Deref(msg, FALSE, NewErrorResponse(msg.id, InternalError, ProviderErrText, Absent))
  ELSE Deref(msg, FALSE, NewResponse(msg.id, "ToolCallResult", TRUE))

handleResourcesList(msg, o, p) ==
  IF ~o.Resources
  THEN Deref(msg, FALSE, NewErrorResponse(msg.id, InternalError, "resources not supported", Absent))
  ELSE IF p = "error"
  THEN Deref(msg, FALSE, NewErrorResponse(msg.id, InternalError, ProviderErrText, Absent))
  ELSE Deref(msg, FALSE, NewResponse(msg.id, "ResourcesListResult", TRUE))

handleResourcesReadMutant(msg, o, p) ==
  IF ~o.Resources
  THEN Deref(msg, FALSE, NewErrorResponse(msg.id, InternalError, "resources not supported", Absent))
  ELSE IF p = "error"
  THEN Deref(msg, FALSE, NewErrorResponse(msg.id, InternalError, ProviderErrText, Absent))
  ELSE IF ~Unmarshal(msg.params)
  THEN Deref(msg, FALSE, NewErrorResponse(msg.id, InvalidParams, "invalid params", Absent))
  ELSE Deref(msg, FALSE, NewResponse(msg.id, "ResourceReadResult", TRUE))

handleResourcesRead(msg, o, p) ==
  IF ~o.Resources
  THEN Deref(msg, FALSE, NewErrorResponse(msg.id, InternalError, "resources not supported", Absent))
  ELSE IF ~Unmarshal(msg.params)
  THEN Deref(msg, FALSE, NewErrorResponse(msg.id, InvalidParams, "invalid params", Absent))
  ELSE IF p = "error"
  THEN Deref(msg, FALSE, NewErrorResponse(msg.id, InternalError, ProviderErrText, Absent))
  ELSE Deref(msg, FALSE, NewResponse(msg.id, "ResourceReadResult", TRUE))

handleResourcesTemplates(msg, o, p) ==
  IF ~o.Resources
  THEN Deref(msg, FALSE, NewErrorResponse(msg.id, InternalError, "resources not supported", Absent))
  ELSE IF p = "error"
  THEN Deref(msg, FALSE, NewErrorResponse(msg.id, InternalError, ProviderErrText, Absent))
  ELSE Deref(msg, FALSE, NewResponse(msg.id, "ResourceTemplatesListResult", TRUE))

handlePromptsListMutant(msg, o, p) ==
  IF ~o.Prompts
  THEN Deref(msg, FALSE, NewErrorResponse(msg.id, InternalError, "prompts not supported", Absent))
  ELSE IF p = "error"
  THEN Returns([resp |-> NilMsg, err |-> Absent], FALSE)
  ELSE Deref(msg, FALSE, NewResponse(msg.id, "PromptsListResult", TRUE))

handlePromptsList(msg, o, p) ==
  IF ~o.Prompts
  THEN Deref(msg, FALSE, NewErrorResponse(msg.id, InternalError, "prompts not supported", Absent))
  ELSE IF p = "error"
  THEN Deref(msg, FALSE, NewErrorResponse(msg.id, InternalError, ProviderErrText, Absent))
  ELSE Deref(msg, FALSE, NewResponse(msg.id, "PromptsListResult", TRUE))

handlePromptsGetMutant(msg, o, p) ==
  IF ~o.Prompts
  THEN Deref(msg, FALSE, NewErrorResponse(msg.id, InternalError, "prompts not supported", Absent))
  ELSE IF ~Unmarshal(msg.params)
  THEN Deref(msg, FALSE, NewErrorResponse(msg.id, InvalidParams, "invalid params", Absent))
  ELSE IF p = "error"
  THEN Returns([resp |-> NilMsg, err |-> ProviderErrText], FALSE)
  ELSE Deref(msg, FALSE, NewResponse(msg.id, "PromptGetResult", TRUE))

handlePromptsGet(msg, o, p) ==
  IF ~o.Prompts
  THEN Deref(msg, FALSE, NewErrorResponse(msg.id, InternalError, "prompts not supported", Absent))
  ELSE IF ~Unmarshal(msg.params)
  THEN Deref(msg, FALSE, NewErrorResponse(msg.id, InvalidParams, "invalid params", Absent))
  ELSE IF p = "error"
  THEN Deref(msg, FALSE, NewErrorResponse(msg.id, InternalError, ProviderErrText, Absent))
  ELSE Deref(msg, FALSE, NewResponse(msg.id, "PromptGetResult", TRUE))

\* Handle's default case: a method outside the switch
HandleDefaultMutant(msg) ==
  Returns(NewErrorResponse(msg.id, MethodNotFound,
                           "method not found: " \o msg.method, Absent), FALSE)

HandleDefault(msg) ==
  IF IsRequest(msg)
  THEN Returns(NewErrorResponse(msg.id, MethodNotFound,
                                "method not found: " \o msg.method, Absent), FALSE)
  ELSE Returns([resp |-> NilMsg, err |-> Absent], FALSE)

\* Handler.Handle: the switch on msg.Method
Handle(msg, o, p) ==
  CASE msg.method = MethodInitialize -> handleInitialize(msg, o)
    [] msg.method = MethodInitialized ->
         Returns([resp |-> NilMsg, err |-> Absent], FALSE)
    [] msg.method = MethodPing -> handlePing(msg)
    [] msg.method = MethodToolsList -> handleToolsList(msg, o, p)
    [] msg.method = MethodToolsCall -> handleToolsCall(msg, o, p)
    [] msg.method = MethodResourcesList -> handleResourcesList(msg, o, p)
    [] msg.method = MethodResourcesRead -> handleResourcesRead(msg, o, p)
    [] msg.method = MethodResourcesTemplates -> handleResourcesTemplates(msg, o, p)
    [] msg.method = MethodPromptsList -> handlePromptsList(msg, o, p)
    [] msg.method = MethodPromptsGet -> handlePromptsGet(msg, o, p)
    [] OTHER -> HandleDefault(msg)

(***************************************************************************)
(* The envelopes a peer can send: any id or none, any method or none, any  *)
(* params.                                                                 *)
(***************************************************************************)
Envelopes ==
  [id : {NilID} \cup Ids,
   method : KnownMethods \cup {UnknownMethod, Absent},
   params : ParamShapes]

\* the methods the transport delivers in the runtime specification: one per
\* kind of handler (no provider, a provider whose result may not encode, the
\* confirmation notification, no handler)
WireMethods ==
  { MethodInitialize, MethodInitialized, MethodToolsList, UnknownMethod }

WireEnvelopes == { m \in Envelopes : m.method \in WireMethods /\ m.params = "valid" }

\* the wirings of the runtime specification
WireOptions == { o \in Options : o.Resources = o.Tools /\ o.Prompts = o.Tools }

NoEnvelope == [id |-> NilID, method |-> Absent, params |-> "absent"]

NoOutcome == Returns([resp |-> NilMsg, err |-> Absent], FALSE)

(***************************************************************************)
(* State.                                                                  *)
(***************************************************************************)
VARIABLES
  opts,            \* Server.opts: which providers are non-nil
  runPc,           \* where Run is: "select", "read", "shutdown", "return", "returned"
  cause,           \* what ended Run's loop: "none", "ctx", "done", "eof", "readerr"
  result,          \* what Run returned: "none", "nil", "ctx.Err()", "reading message: err"
  ctxDone,         \* the caller's context is cancelled
  done,            \* Server.done: "open" or "closed"
  closeCalls,      \* calls of Server.Close so far
  closedRunning,   \* Server.Close was called before Run returned
  faulted,         \* the panic that ended the process, or "none"
  wg,              \* Server.wg: the WaitGroup's counter
  tasks,           \* the handler tasks, by the order of their Read
  nread,           \* envelopes Read has returned
  submitted,       \* id and method of the requests Read has returned, in order
  written,         \* the envelopes transport.Write accepted, in order
  writeErrs,       \* calls of transport.Write that returned an error
  transportCloses, \* calls of transport.Close
  wroteAfterClose, \* a handler task called transport.Write after transport.Close
  req,             \* HandleSpec: the envelope last dispatched
  prov,            \* HandleSpec: what the provider did in that dispatch
  out,             \* HandleSpec: what Handle returned for it
  wasInit,         \* HandleSpec: h.initialized before that dispatch
  ndisp,           \* HandleSpec: dispatches so far
  mu,              \* WriteSpec: Stdio.mu, "unlocked" or "locked"
  wr,              \* WriteSpec: where each caller of Stdio.Write is
  stream,          \* WriteSpec: the bytes Stdio.writer has accepted, in order
  input,           \* TextSpec: the string given to LimitText, a byte per element
  limits,          \* TextSpec: the TextLimits given to LimitText
  limited,         \* TextSpec: << >>, or the one LimitedText that LimitText returned
  stdin,           \* ReadSpec: the lines of the stream Stdio reads
  scanned,         \* ReadSpec: how many of them Stdio's scanner has consumed
  lateReads,       \* SignalSpec: the handler tasks whose envelope Read returned with a shutdown signal pending
  registry,        \* RegistrySpec: the ToolRegistry's tools and handlers
  called,          \* RegistrySpec: the last CallTool: its name, what it returned, the handler it ran
  registered,      \* RegistrySpec: the name and handler of each Register call, in order
  items,           \* ArraySpec: the slice given to LimitArray
  arrayLimits,     \* ArraySpec: the ArrayLimits given to LimitArray or MergeArrayLimits
  limitedArray,    \* ArraySpec: << >>, or the one LimitedArray that LimitArray returned
  defaults,        \* MergeSpec: the Defaults whose Merge methods are called
  userText,        \* MergeSpec: the TextLimits first given to MergeTextLimits
  userArray,       \* MergeSpec: the ArrayLimits first given to MergeArrayLimits
  mergedText,      \* MergeSpec: what MergeTextLimits returned, each call given the result before it
  mergedArray,     \* MergeSpec: what MergeArrayLimits returned, each call given the result before it
  mappings,        \* BuilderSpec: MappingBuilder.mappings, the entries in declaration order
  calls,           \* BuilderSpec: the builder methods called so far, in order
  built,           \* BuilderSpec: << >>, or the MappingFile that MappingBuilder.Build returned
  plugin,          \* BuilderSpec: << >>, or the Plugin that PluginBuilder.Build returned
  cache,           \* NixSpec: Executor.cache, from flake to executable path
  builds,          \* NixSpec: where each caller of Executor.Build is, and what Build returned to it
  produced,        \* NixSpec: the (flake, path) pairs that builds found an executable for
  lateRuns,        \* NixSpec: per flake, the runs of nix build started while the flake was cached
  clears,          \* NixSpec: calls of ClearCache so far
  resources,       \* ResourceSpec: the ResourceRegistry's resources, templates and readers
  resourceCalls,   \* ResourceSpec: the RegisterResource and RegisterTemplate calls, in order
  readResult       \* ResourceSpec: the last ReadResource: its uri, what it returned, the reader it ran

vars ==
  << opts, initialized, runPc, cause, result, ctxDone, done, closeCalls,
     closedRunning, faulted, wg, tasks, nread, submitted, written, writeErrs,
     transportCloses, wroteAfterClose, req, prov, out, wasInit, ndisp,
     mu, wr, stream, input, limits, limited, stdin, scanned, lateReads, registry,
     called, registered,
     items, arrayLimits, limitedArray,
     defaults, userText, userArray, mergedText, mergedArray,
     mappings, calls, built, plugin,
     cache, builds, produced, lateRuns, clears,
     resources, resourceCalls, readResult >>

runVars ==
  << runPc, cause, result, ctxDone, done, closeCalls, closedRunning, faulted,
     wg, tasks,
     nread, submitted, written, writeErrs, transportCloses, wroteAfterClose >>

handleVars == << req, prov, out, wasInit, ndisp >>

stdioVars == << mu, wr, stream >>

textVars == << input, limits, limited >>

readerVars == << stdin, scanned, lateReads >>

\* the state of the parts that the server and the transport's writer never
\* touch
registryVars == << registry, called, registered >>

arrayVars == << items, arrayLimits, limitedArray >>

mergeVars == << defaults, userText, userArray, mergedText, mergedArray >>

builderVars == << mappings, calls, built, plugin >>

nixVars == << cache, builds, produced, lateRuns, clears >>

resourceVars == << resources, resourceCalls, readResult >>

\* the state of the library's other parts, each used by one specification
libraryVars == << arrayVars, mergeVars, builderVars, nixVars, resourceVars >>

outsideVars == << textVars, registryVars, libraryVars >>

\* the server's own state and its transport's
serverVars == << opts, initialized, runVars, handleVars, stdioVars, readerVars >>

\* the handler tasks that call Stdio.Write
Writers == 1..MaxWriters

\* json.Marshal(msg): the bytes of the envelope writer w sends, one string
\* per byte; envelopes of different writers differ
Marshal(w) == << "{", ToString(w), "}" >>

\* what fmt.Fprintf(t.writer, "%s\n", data) hands to the writer
Line(w) == Marshal(w) \o << "\n" >>

NoTask == [pc |-> "none", msg |-> NoEnvelope, resp |-> NilMsg]

\* a task whose goroutine has ended
DoneTask == [pc |-> "done", msg |-> NoEnvelope, resp |-> NilMsg]

\* New and NewHandler: the state after construction, Run not yet in its loop
InitRun ==
  /\ initialized = FALSE
  /\ runPc = "select"
  /\ cause = "none"
  /\ result = "none"
  /\ ctxDone = FALSE
  /\ done = "open"
  /\ closeCalls = 0
  /\ closedRunning = FALSE
  /\ faulted = "none"
  /\ wg = 0
  /\ tasks = [t \in 1..MaxReads |-> NoTask]
  /\ nread = 0
  /\ submitted = << >>
  /\ written = << >>
  /\ writeErrs = 0
  /\ transportCloses = 0
  /\ wroteAfterClose = FALSE

InitHandle ==
  /\ req = NoEnvelope
  /\ prov = "ok"
  /\ out = NoOutcome
  /\ wasInit = FALSE
  /\ ndisp = 0

\* NewStdio: the mutex is unlocked, nothing is written; no Write is called
\* yet
InitStdio ==
  /\ mu = "unlocked"
  /\ wr = [w \in Writers |-> [pc |-> "call", n |-> 0, err |-> Absent]]
  /\ stream = << >>

\* LimitText is not called
InitText ==
  /\ input = << >>
  /\ limits = [Head |-> 0, Tail |-> 0, MaxLines |-> 0, MaxBytes |-> 0]
  /\ limited = << >>

\* Stdio has nothing to read
InitReader ==
  /\ stdin = << >>
  /\ scanned = 0
  /\ lateReads = {}

\* no handler: a name the handlers map does not hold, a call that ran none
NoHandler == [tag |-> 0, outcome |-> "none"]

\* a nil *protocol.ToolCallResult
NilResult == [Content |-> << >>, IsError |-> FALSE]

\* CallTool is not called
NoCall == [name |-> "", result |-> NilResult, err |-> Absent, ran |-> NoHandler]

\* NewToolRegistry: no tools, an empty handlers map
NewToolRegistry == [tools |-> << >>, handlers |-> [n \in {} |-> NoHandler]]

InitRegistry ==
  /\ registry = NewToolRegistry
  /\ called = NoCall
  /\ registered = << >>

\* LimitArray is not called
InitArray ==
  /\ items = << >>
  /\ arrayLimits = [Limit |-> 0, Offset |-> 0]
  /\ limitedArray = << >>

InitMerge ==
  /\ defaults = [MaxBytes |-> 0, MaxLines |-> 0, MaxItems |-> 0]
  /\ userText = [Head |-> 0, Tail |-> 0, MaxLines |-> 0, MaxBytes |-> 0]
  /\ userArray = [Limit |-> 0, Offset |-> 0]
  /\ mergedText = << >>
  /\ mergedArray = << >>

InitBuilder ==
  /\ mappings = << >>
  /\ calls = << >>
  /\ built = << >>
  /\ plugin = << >>

InitNix ==
  /\ cache = [f \in {} |-> ""]
  /\ builds = << >>
  /\ produced = {}
  /\ lateRuns = << >>
  /\ clears = 0

InitResource ==
  /\ resources = [resources |-> << >>, templates |-> << >>, readers |-> [u \in {} |-> 0]]
  /\ resourceCalls = << >>
  /\ readResult = [uri |-> "", ok |-> FALSE, err |-> "", ran |-> 0]

\* the library's other parts are not used
InitLibrary == InitArray /\ InitMerge /\ InitBuilder /\ InitNix /\ InitResource

InitOutside == InitText /\ InitRegistry /\ InitLibrary

\* all but Array's state, and its initial value
exceptArray == << serverVars, textVars, registryVars, mergeVars, builderVars, nixVars, resourceVars >>

InitExceptArray ==
  /\ opts \in WireOptions
  /\ InitRun
  /\ InitHandle
  /\ InitStdio
  /\ InitReader
  /\ InitText
  /\ InitRegistry
  /\ InitMerge
  /\ InitBuilder
  /\ InitNix
  /\ InitResource

\* all but Merge's state, and its initial value
exceptMerge == << serverVars, textVars, registryVars, arrayVars, builderVars, nixVars, resourceVars >>

InitExceptMerge ==
  /\ opts \in WireOptions
  /\ InitRun
  /\ InitHandle
  /\ InitStdio
  /\ InitReader
  /\ InitText
  /\ InitRegistry
  /\ InitArray
  /\ InitBuilder
  /\ InitNix
  /\ InitResource

\* all but Builder's state, and its initial value
exceptBuilder == << serverVars, textVars, registryVars, arrayVars, mergeVars, nixVars, resourceVars >>

InitExceptBuilder ==
  /\ opts \in WireOptions
  /\ InitRun
  /\ InitHandle
  /\ InitStdio
  /\ InitReader
  /\ InitText
  /\ InitRegistry
  /\ InitArray
  /\ InitMerge
  /\ InitNix
  /\ InitResource

\* all but Nix's state, and its initial value
exceptNix == << serverVars, textVars, registryVars, arrayVars, mergeVars, builderVars, resourceVars >>

InitExceptNix ==
  /\ opts \in WireOptions
  /\ InitRun
  /\ InitHandle
  /\ InitStdio
  /\ InitReader
  /\ InitText
  /\ InitRegistry
  /\ InitArray
  /\ InitMerge
  /\ InitBuilder
  /\ InitResource

\* all but Resource's state, and its initial value
exceptResource == << serverVars, textVars, registryVars, arrayVars, mergeVars, builderVars, nixVars >>

InitExceptResource ==
  /\ opts \in WireOptions
  /\ InitRun
  /\ InitHandle
  /\ InitStdio
  /\ InitReader
  /\ InitText
  /\ InitRegistry
  /\ InitArray
  /\ InitMerge
  /\ InitBuilder
  /\ InitNix

Init ==
  /\ opts \in WireOptions
  /\ InitRun
  /\ InitHandle
  /\ InitStdio
  /\ InitOutside
  /\ InitReader

\* the process is running: no goroutine has panicked
Alive == faulted = "none"

(***************************************************************************)
(* The host: cancelling the context given to Run, and Server.Close.        *)
(***************************************************************************)
Cancel ==
  /\ Alive
  /\ ~ctxDone
  /\ ctxDone' = TRUE
  /\ UNCHANGED << opts, initialized, runPc, cause, result, done, closeCalls,
                  closedRunning, faulted, wg, tasks, nread, submitted,
                  written, writeErrs, transportCloses, wroteAfterClose,
                  handleVars, stdioVars, outsideVars, readerVars >>

\* Server.Close: close(s.done), which panics on a closed channel
Close ==
  /\ Alive
  /\ closeCalls < MaxCloses
  /\ closeCalls' = closeCalls + 1
  /\ closedRunning' = (closedRunning \/ runPc # "returned")
  /\ IF done = "closed"
     THEN faulted' = "close of closed channel" /\ done' = done
     ELSE done' = "closed" /\ faulted' = faulted
  /\ UNCHANGED << opts, initialized, runPc, cause, result, ctxDone, wg, tasks,
                  nread, submitted, written, writeErrs, transportCloses,
                  wroteAfterClose, handleVars, stdioVars, outsideVars, readerVars >>

(***************************************************************************)
(* Server.Run.                                                             *)
(***************************************************************************)
\* where Run looks at ctx.Done() and s.done: the select at the top of the loop
ObservesSignalsMutant == runPc \in {"select", "read"}

ObservesSignals == runPc = "select"

\* where Run goes from a ready case of the select: into gracefulShutdown
AfterSelectMutant(c) == IF c = "done" THEN "return" ELSE "shutdown"

AfterSelect(c) == "shutdown"

\* the select: a ready case is taken, one of them when both are ready, and
\* the default only when none is
RunSelect ==
  /\ Alive
  /\ ObservesSignals
  /\ \/ ctxDone /\ cause' = "ctx" /\ runPc' = AfterSelect("ctx")
     \/ done = "closed" /\ cause' = "done" /\ runPc' = AfterSelect("done")
     \/ ~ctxDone /\ done = "open" /\ runPc = "select" /\ cause' = cause /\ runPc' = "read"
  /\ UNCHANGED << opts, initialized, result, ctxDone, done, closeCalls,
                  closedRunning, faulted, wg, tasks, nread, submitted,
                  written, writeErrs, transportCloses, wroteAfterClose,
                  handleVars, stdioVars, outsideVars, readerVars >>

\* transport.Read returns an envelope: wg.Add(1) and the task is launched
ReadMessageMutant(m) ==
  /\ Alive
  /\ runPc = "read"
  /\ nread < MaxReads
  /\ wg = 0
  /\ nread' = nread + 1
  /\ submitted' = IF IsRequest(m)
                   THEN Append(submitted, [id |-> m.id, method |-> m.method])
                   ELSE submitted
  /\ wg' = wg + 1
  /\ tasks' = [tasks EXCEPT ![nread + 1] = [pc |-> "handle", msg |-> m, resp |-> NilMsg]]
  /\ runPc' = "select"
  /\ UNCHANGED << opts, initialized, cause, result, ctxDone, done, closeCalls,
                  closedRunning, faulted, written, writeErrs, transportCloses,
                  wroteAfterClose, handleVars, stdioVars, outsideVars >>

ReadMessage(m) ==
  /\ Alive
  /\ runPc = "read"
  /\ nread < MaxReads
  /\ nread' = nread + 1
  /\ submitted' = IF IsRequest(m)
                   THEN Append(submitted, [id |-> m.id, method |-> m.method])
                   ELSE submitted
  /\ wg' = wg + 1
  /\ tasks' = [tasks EXCEPT ![nread + 1] = [pc |-> "handle", msg |-> m, resp |-> NilMsg]]
  /\ runPc' = "select"
  /\ UNCHANGED << opts, initialized, cause, result, ctxDone, done, closeCalls,
                  closedRunning, faulted, written, writeErrs, transportCloses,
                  wroteAfterClose, handleVars, stdioVars, outsideVars >>

\* transport.Read returns io.EOF
ReadEOF ==
  /\ Alive
  /\ runPc = "read"
  /\ cause' = "eof"
  /\ runPc' = "shutdown"
  /\ UNCHANGED << opts, initialized, result, ctxDone, done, closeCalls,
                  closedRunning, faulted, wg, tasks, nread, submitted,
                  written, writeErrs, transportCloses, wroteAfterClose,
                  handleVars, stdioVars, outsideVars >>

\* transport.Read returns another error
ReadError ==
  /\ Alive
  /\ runPc = "read"
  /\ cause' = "readerr"
  /\ runPc' = "shutdown"
  /\ UNCHANGED << opts, initialized, result, ctxDone, done, closeCalls,
                  closedRunning, faulted, wg, tasks, nread, submitted,
                  written, writeErrs, transportCloses, wroteAfterClose,
                  handleVars, stdioVars, outsideVars >>

\* s.wg.Wait() returns
WaitReturnsMutant == TRUE

WaitReturns == wg = 0

\* gracefulShutdown: wait for the tasks, close the transport
gracefulShutdown ==
  /\ Alive
  /\ runPc = "shutdown"
  /\ WaitReturns
  /\ transportCloses' = transportCloses + 1
  /\ runPc' = "return"
  /\ UNCHANGED << opts, initialized, cause, result, ctxDone, done, closeCalls,
                  closedRunning, faulted, wg, tasks, nread, submitted,
                  written, writeErrs, wroteAfterClose, handleVars, stdioVars, outsideVars, readerVars >>

\* the value of Run's return statement after each branch
RunResultMutant(c) ==
  CASE c = "ctx" -> "ctx.Err()"
    [] c = "done" -> "ctx.Err()"
    [] c = "eof" -> "nil"
    [] c = "readerr" -> "reading message: err"

RunResultEofMutant(c) ==
  CASE c = "ctx" -> "ctx.Err()"
    [] c = "done" -> "nil"
    [] c = "eof" -> "reading message: err"
    [] c = "readerr" -> "reading message: err"

RunResult(c) ==
  CASE c = "ctx" -> "ctx.Err()"
    [] c = "done" -> "nil"
    [] c = "eof" -> "nil"
    [] c = "readerr" -> "reading message: err"

RunReturn ==
  /\ Alive
  /\ runPc = "return"
  /\ result' = RunResult(cause)
  /\ runPc' = "returned"
  /\ UNCHANGED << opts, initialized, cause, ctxDone, done, closeCalls,
                  closedRunning, faulted, wg, tasks, nread, submitted,
                  written, writeErrs, transportCloses, wroteAfterClose,
                  handleVars, stdioVars, outsideVars, readerVars >>

(***************************************************************************)
(* A handler task: handleMessage, then wg.Done().                          *)
(***************************************************************************)
\* handleMessage up to its call of transport.Write: the envelope to write,
\* or NilMsg when there is none
ToWriteMutant(msg, h) ==
  IF h.err # Absent THEN NilMsg ELSE h.resp

ToWriteCodeMutant(msg, h) ==
  IF h.err # Absent
  THEN IF IsRequest(msg)
       THEN NewErrorResponse(msg.id, InvalidParams, h.err, Absent).resp
       ELSE NilMsg
  ELSE h.resp

ToWrite(msg, h) ==
  IF h.err # Absent
  THEN IF IsRequest(msg)
       THEN NewErrorResponse(msg.id, InternalError, h.err, Absent).resp
       ELSE NilMsg
  ELSE h.resp

TaskHandle(t, p) ==
  /\ Alive
  /\ tasks[t].pc = "handle"
  /\ LET h == Handle(tasks[t].msg, opts, p)
         w == ToWrite(tasks[t].msg, h)
     IN /\ initialized' = (initialized \/ h.init)
        /\ IF h.panicked
           THEN /\ faulted' = "nil pointer dereference"
                /\ UNCHANGED << tasks, wg >>
           ELSE /\ faulted' = faulted
                /\ IF w = NilMsg
                   THEN /\ tasks' = [tasks EXCEPT ![t] = DoneTask]
                        /\ wg' = wg - 1
                   ELSE /\ tasks' = [tasks EXCEPT ![t] =
                                       [pc |-> "write", msg |-> NoEnvelope, resp |-> w]]
                        /\ wg' = wg
  /\ UNCHANGED << opts, runPc, cause, result, ctxDone, done, closeCalls,
                  closedRunning, nread, submitted, written, writeErrs,
                  transportCloses, wroteAfterClose, handleVars, stdioVars, outsideVars, readerVars >>

\* s.transport.Write(resp), its error dropped, then the deferred wg.Done()
TaskWrite(t, ok) ==
  /\ Alive
  /\ tasks[t].pc = "write"
  /\ IF ok
     THEN written' = Append(written, tasks[t].resp) /\ writeErrs' = writeErrs
     ELSE written' = written /\ writeErrs' = writeErrs + 1
  /\ wroteAfterClose' = (wroteAfterClose \/ transportCloses > 0)
  /\ tasks' = [tasks EXCEPT ![t] = DoneTask]
  /\ wg' = wg - 1
  /\ UNCHANGED << opts, initialized, runPc, cause, result, ctxDone, done,
                  closeCalls, closedRunning, faulted, nread, submitted,
                  transportCloses, handleVars, stdioVars, outsideVars, readerVars >>

Next ==
  \/ Cancel
  \/ Close
  \/ RunSelect
  \/ \E m \in WireEnvelopes : ReadMessage(m) /\ UNCHANGED readerVars
  \/ ReadEOF /\ UNCHANGED readerVars
  \/ ReadError /\ UNCHANGED readerVars
  \/ gracefulShutdown
  \/ RunReturn
  \/ \E t \in 1..MaxReads, p \in ProviderOutcomes : TaskHandle(t, p)
  \/ \E t \in 1..MaxReads, ok \in BOOLEAN : TaskWrite(t, ok)

Spec == Init /\ [][Next]_vars

(***************************************************************************)
(* The dispatcher alone: one session handling envelopes one after another. *)
(***************************************************************************)
InitDispatch ==
  /\ opts \in Options
  /\ InitRun
  /\ InitHandle
  /\ InitStdio
  /\ InitOutside
  /\ InitReader

Dispatch(m, p) ==
  /\ ndisp < MaxDispatch
  /\ ~out.panicked
  /\ ndisp' = ndisp + 1
  /\ req' = m
  /\ prov' = p
  /\ wasInit' = initialized
  /\ out' = Handle(m, opts, p)
  /\ initialized' = (initialized \/ Handle(m, opts, p).init)
  /\ UNCHANGED << opts, runVars, stdioVars, outsideVars, readerVars >>

NextDispatch == \E m \in Envelopes, p \in ProviderOutcomes : Dispatch(m, p)

HandleSpec == InitDispatch /\ [][NextDispatch]_vars

(***************************************************************************)
(* Stdio.Write, called by several handler tasks at once.  The writer       *)
(* behind the transport accepts the bytes of one Fprintf a byte at a time  *)
(* and can fail after any of them.                                         *)
(***************************************************************************)
\* json.Marshal(msg) returns the bytes, or an error and Write returns
WriteMarshal(w, ok) ==
  /\ wr[w].pc = "call"
  /\ wr' = [wr EXCEPT ![w].pc = IF ok THEN "lock" ELSE "done",
                      ![w].err = IF ok THEN Absent ELSE "marshaling message: err"]
  /\ UNCHANGED << opts, initialized, runVars, handleVars, mu, stream, outsideVars, readerVars >>

\* t.mu.Lock() can return
LockFreeMutant == TRUE

LockFree == mu = "unlocked"

\* t.mu.Lock()
WriteLock(w) ==
  /\ wr[w].pc = "lock"
  /\ LockFree
  /\ mu' = "locked"
  /\ wr' = [wr EXCEPT ![w].pc = "fprintf"]
  /\ UNCHANGED << opts, initialized, runVars, handleVars, stream, outsideVars, readerVars >>

\* fmt.Fprintf: the writer accepts the next byte of the line; after the
\* last one Fprintf returns nil
WriteEmit(w) ==
  /\ wr[w].pc = "fprintf"
  /\ stream' = Append(stream, Line(w)[wr[w].n + 1])
  /\ wr' = [wr EXCEPT ![w].n = @ + 1,
                      ![w].pc = IF wr[w].n + 1 = Len(Line(w))
                                THEN "unlock" ELSE "fprintf"]
  /\ UNCHANGED << opts, initialized, runVars, handleVars, mu, outsideVars, readerVars >>

\* fmt.Fprintf: the writer returns an error instead of accepting the next
\* byte
WriteFail(w) ==
  /\ wr[w].pc = "fprintf"
  /\ wr' = [wr EXCEPT ![w].pc = "unlock", ![w].err = "writing message: err"]
  /\ UNCHANGED << opts, initialized, runVars, handleVars, mu, stream, outsideVars, readerVars >>

\* the deferred t.mu.Unlock(), and Write returns
WriteUnlock(w) ==
  /\ wr[w].pc = "unlock"
  /\ mu' = "unlocked"
  /\ wr' = [wr EXCEPT ![w].pc = "done"]
  /\ UNCHANGED << opts, initialized, runVars, handleVars, stream, outsideVars, readerVars >>

NextWrite ==
  \E w \in Writers :
    \/ WriteMarshal(w, TRUE)
    \/ WriteMarshal(w, FALSE)
    \/ WriteLock(w)
    \/ WriteEmit(w)
    \/ WriteFail(w)
    \/ WriteUnlock(w)

WriteSpec == Init /\ [][NextWrite]_vars

(***************************************************************************)
(* Properties of the server runtime (Spec).                                *)
(***************************************************************************)
\* every handler task the loop launched has ended
TasksEnded == \A t \in 1..MaxReads : tasks[t].pc \in {"none", "done"}

Returned == runPc = "returned"

Distinct(seq) == \A i, j \in 1..Len(seq) : i # j => seq[i].id # seq[j].id

IdsOf(seq) == { seq[i].id : i \in 1..Len(seq) }

\* C1: transport.Close is called only once every handler task the loop
\* launched has ended (whatever ended the loop), and no handler task calls
\* transport.Write after transport.Close.
C1_CloseAfterTasks ==
  /\ transportCloses > 0 => TasksEnded /\ wg = 0
  /\ ~wroteAfterClose

\* the transport is closed after both tasks of the run have written
C1_Witness ==
  /\ transportCloses = 1
  /\ nread >= 2
  /\ Len(written) >= 2

\* C2: once Read has reported io.EOF no further Read is started, and when Run
\* returns after it, it returns nil, every handler task has ended and
\* transport.Close has been called exactly once.
C2_EofReturnsNil ==
  /\ cause = "eof" => runPc \in {"shutdown", "return", "returned"}
  /\ transportCloses <= 1
  /\ (Returned /\ cause = "eof") =>
       /\ result = "nil"
       /\ TasksEnded /\ wg = 0
       /\ transportCloses = 1

C2_Witness ==
  /\ Returned
  /\ cause = "eof"
  /\ result = "nil"
  /\ nread >= 1
  /\ Len(written) >= 1

\* C3: a second call of Server.Close does not fault.
C3_CloseNeverFaults == faulted # "close of closed channel"

\* C4: what Run returns is fixed by what ended its loop: nil after io.EOF and
\* after the close signal, the wrapped read error after any other Read error,
\* the context's error after cancellation; it returns the context's error only
\* if the context was cancelled and takes the close branch only if Close was
\* called.
C4_ResultByCause ==
  /\ Returned =>
       /\ cause \in {"ctx", "done", "eof", "readerr"}
       /\ cause \in {"eof", "done"} => result = "nil"
       /\ cause = "readerr" => result = "reading message: err"
       /\ cause = "ctx" => result = "ctx.Err()"
  /\ ~Returned => result = "none"
  /\ cause = "ctx" => ctxDone
  /\ cause = "done" => done = "closed"

\* Run returned the read error although both signals were set by then
C4_Witness ==
  /\ Returned
  /\ result = "reading message: err"
  /\ ctxDone
  /\ done = "closed"
  /\ nread >= 1

\* C5 as stated: once Close has been called on a running server, Run returns
\* nil.
C5_CloseReturnsNil == (closedRunning /\ Returned) => result = "nil"

\* Run can take a step of its own
RunCanStep == ENABLED (RunSelect \/ gracefulShutdown \/ RunReturn)

\* C5 as amended: once Close has been called on a running server, Run returns
\* nil unless a Read error or cancellation ended the loop; it returns only
\* after every handler task has ended and the transport has been closed; and
\* with the signal set only a pending Read or an unfinished task holds Run up.
C5_CloseDrains ==
  /\ (closedRunning /\ Returned) =>
       /\ result # "nil" => cause \in {"readerr", "ctx"}
       /\ cause = "done" => result = "nil"
       /\ TasksEnded /\ wg = 0
       /\ transportCloses = 1
  /\ (Alive /\ done = "closed" /\ ~Returned /\ runPc # "read" /\ wg = 0) =>
       RunCanStep

C5_Witness ==
  /\ closedRunning
  /\ Returned
  /\ cause = "done"
  /\ result = "nil"
  /\ nread >= 1
  /\ Len(written) >= 1

\* C6: cancellation and the close signal end the loop only from the select at
\* its top; a Read in flight ends only by returning (an envelope, io.EOF or an
\* error), and until it does Run neither closes the transport nor returns.
C6_ReadNotPreempted ==
  /\ [][ (cause = "none" /\ cause' \in {"ctx", "done"}) => runPc = "select" ]_vars
  /\ [][ (runPc = "read" /\ runPc' # "read") =>
           \/ nread' = nread + 1 /\ runPc' = "select"
           \/ cause' \in {"eof", "readerr"} /\ runPc' = "shutdown" ]_vars
  /\ [](runPc = "read" => result = "none" /\ transportCloses = 0)

\* both signals were set while a Read was in flight
C6_Witness ==
  /\ runPc = "read"
  /\ ctxDone
  /\ done = "closed"
  /\ Alive

Answerable == SelectSeq(submitted, LAMBDA r : r.method # MethodInitialized)

Dispatched == ndisp > 0

\* the params decode wherever the method's handler decodes them
ParamsDecode(m) == m.method \in ParamMethods => Unmarshal(m.params)

\* C8 as stated: for a request with one of the ten known methods and params
\* that decode, Handle returns an envelope with the request's id.
C8_TenMethodsEchoId ==
  (Dispatched /\ IsRequest(req) /\ req.method \in KnownMethods /\ ParamsDecode(req)) =>
    /\ out.resp # NilMsg
    /\ out.resp.id = req.id

\* C8 as amended: for a request with one of the nine known methods other than
\* notifications/initialized and params that decode, Handle returns an
\* envelope with the request's id, or no envelope and the error of encoding
\* the result (a tools/list result that does not marshal).
C8_NineMethodsEchoId ==
  (Dispatched /\ IsRequest(req) /\ req.method \in KnownMethods \ {MethodInitialized}
     /\ ParamsDecode(req)) =>
    /\ ~out.panicked
    /\ out.err = Absent => out.resp # NilMsg /\ out.resp.id = req.id
    /\ out.err # Absent =>
         out.resp = NilMsg /\ req.method = MethodToolsList /\ prov = "unencodable"

\* a prompts/list request whose provider failed is answered under its id
C8_Witness ==
  /\ Dispatched
  /\ req.method = MethodPromptsList
  /\ req.id = 2
  /\ opts.Prompts
  /\ prov = "error"
  /\ out.resp.id = 2
  /\ out.resp.code = InternalError

\* C9: for a notification, whatever its method and the wiring, dispatch does
\* not fault and nothing is written.
C9_NotificationsSilent ==
  (Dispatched /\ req.id = NilID /\ req.method # Absent) =>
    /\ ~out.panicked
    /\ ToWrite(req, out) = NilMsg

\* the provider a gated method needs, and the name of its group
Provider(method) ==
  CASE method \in {MethodToolsList, MethodToolsCall} -> "Tools"
    [] method \in {MethodResourcesList, MethodResourcesRead, MethodResourcesTemplates} ->
         "Resources"
    [] method \in {MethodPromptsList, MethodPromptsGet} -> "Prompts"

GroupName(method) ==
  CASE Provider(method) = "Tools" -> "tools"
    [] Provider(method) = "Resources" -> "resources"
    [] Provider(method) = "Prompts" -> "prompts"

\* C10: a request for a gated method whose provider is nil is answered by an
\* InternalError response "<group> not supported" under its id, whether or not
\* initialize was handled before and whatever its params.
C10_AbsentProvider ==
  (Dispatched /\ IsRequest(req) /\ req.method \in GatedMethods
     /\ ~opts[Provider(req.method)]) =>
    /\ ~out.panicked
    /\ out.err = Absent
    /\ out.resp.id = req.id
    /\ out.resp.code = InternalError
    /\ out.resp.message = GroupName(req.method) \o " not supported"
    /\ out.resp.result = Absent

\* tools/call with params that do not decode, after initialize, no tool
\* provider wired
C10_Witness ==
  /\ Dispatched
  /\ wasInit
  /\ req.method = MethodToolsCall
  /\ req.id # NilID
  /\ req.params = "mistyped"
  /\ ~opts.Tools
  /\ out.resp.code = InternalError
  /\ out.resp.message = "tools not supported"

(***************************************************************************)
(* Transport-fatal failures.                                               *)
(***************************************************************************)
\* C11: when writing a response to the transport has failed, the failure is
\* surfaced to Run's caller: Run does not return nil.
C11_WriteFailureFatal ==
  (writeErrs > 0 /\ Returned) => result # "nil"

(***************************************************************************)
(* output.LimitText.  A string is the sequence of its bytes; a byte is an  *)
(* ASCII letter, a newline, the lead byte of a two-byte rune or a          *)
(* continuation byte.  A nil *TruncationInfo is << >>, a non-nil one the   *)
(* one-element sequence of the record.                                     *)
(***************************************************************************)
NL == "\n"

Bytes == {"a", NL, "lead", "cont"}

RECURSIVE Strings(_)
Strings(n) ==
  IF n = 0 THEN {<< >>}
  ELSE Strings(n - 1) \cup { Append(s, b) : s \in { x \in Strings(n - 1) : Len(x) = n - 1 }, b \in Bytes }

\* utf8.UTFMax
UTFMax == 4

\* utf8.ValidString(s)
RECURSIVE ValidString(_)
ValidString(s) ==
  IF s = << >> THEN TRUE
  ELSE IF s[1] \in {"a", NL} THEN ValidString(Tail(s))
  ELSE IF s[1] = "lead"
  THEN Len(s) >= 2 /\ s[2] = "cont" /\ ValidString(SubSeq(s, 3, Len(s)))
  ELSE FALSE

\* strings.TrimRight(s, "\n")
RECURSIVE TrimRight(_)
TrimRight(s) ==
  IF s # << >> /\ s[Len(s)] = NL THEN TrimRight(SubSeq(s, 1, Len(s) - 1)) ELSE s

\* strings.Split(s, "\n"): the pieces between the newlines, one more than
\* there are newlines
RECURSIVE Split(_)
Split(s) ==
  IF \A i \in 1..Len(s) : s[i] # NL THEN << s >>
  ELSE LET i == CHOOSE k \in 1..Len(s) : s[k] = NL /\ \A j \in 1..(k - 1) : s[j] # NL
       IN << SubSeq(s, 1, i - 1) >> \o Split(SubSeq(s, i + 1, Len(s)))

\* strings.Join(lines, "\n")
RECURSIVE Join(_)
Join(lines) ==
  IF lines = << >> THEN << >>
  ELSE IF Len(lines) = 1 THEN lines[1]
  ELSE lines[1] \o << NL >> \o Join(Tail(lines))

splitLines(s) ==
  IF s = << >> THEN << >>
  ELSE IF TrimRight(s) = << >> THEN << << >> >>
  ELSE Split(TrimRight(s))

joinLines(lines, trailingNewline) ==
  IF trailingNewline THEN Join(lines) \o << NL >> ELSE Join(lines)

\* the loop of truncateUTF8, i iterations done
RECURSIVE truncateUTF8Loop(_, _)
truncateUTF8Loop(s, i) ==
  IF i < UTFMax /\ Len(s) > 0
  THEN IF ValidString(s) THEN s
       ELSE truncateUTF8Loop(SubSeq(s, 1, Len(s) - 1), i + 1)
  ELSE s

truncateUTF8(s, maxBytes) ==
  truncateUTF8Loop(IF maxBytes < Len(s) THEN SubSeq(s, 1, maxBytes) ELSE s, 0)

\* strings.LastIndex(s, "\n"), counted from 0; -1 when there is none
LastIndex(s) ==
  IF \A i \in 1..Len(s) : s[i] # NL THEN -1
  ELSE (CHOOSE k \in 1..Len(s) : s[k] = NL /\ \A j \in (k + 1)..Len(s) : s[j] # NL) - 1

truncateAtBoundaryMutant(s, maxBytes) ==
  IF maxBytes <= 0 THEN << >>
  ELSE IF Len(s) <= maxBytes THEN s
  ELSE LET truncated == SubSeq(s, 1, maxBytes)
           idx == LastIndex(s)
       IN IF idx > 0 THEN SubSeq(s, 1, idx + 1)
          ELSE truncateUTF8(truncated, maxBytes)

truncateAtBoundary(s, maxBytes) ==
  IF maxBytes <= 0 THEN << >>
  ELSE IF Len(s) <= maxBytes THEN s
  ELSE LET truncated == SubSeq(s, 1, maxBytes)
           idx == LastIndex(truncated)
       IN IF idx > 0 THEN SubSeq(truncated, 1, idx + 1)
          ELSE truncateUTF8(truncated, maxBytes)

\* LimitText, step 1 (Head / Tail): the lines kept and the position
HeadTail(lines, l) ==
  IF l.Head > 0 /\ l.Head < Len(lines)
  THEN [result |-> SubSeq(lines, 1, l.Head), position |-> "head"]
  ELSE IF l.Tail > 0 /\ l.Tail < Len(lines)
  THEN [result |-> SubSeq(lines, Len(lines) - l.Tail + 1, Len(lines)), position |-> "tail"]
  ELSE [result |-> lines, position |-> ""]

\* LimitText, step 2 (MaxLines), on what step 1 left
MaxLinesStep(r, l) ==
  IF l.MaxLines > 0 /\ l.MaxLines < Len(r.result)
  THEN IF r.position = "tail"
       THEN [result |-> SubSeq(r.result, Len(r.result) - l.MaxLines + 1, Len(r.result)),
             position |-> "tail"]
       ELSE [result |-> SubSeq(r.result, 1, l.MaxLines), position |-> "head"]
  ELSE r

\* LimitText, the rejoin and step 3 (MaxBytes), on what step 2 left
MaxBytesStep(r, trailingNewline, l) ==
  LET content == joinLines(r.result, trailingNewline /\ r.position = "")
  IN IF l.MaxBytes > 0 /\ Len(content) > l.MaxBytes
     THEN [content |-> truncateAtBoundary(content, l.MaxBytes),
           result |-> splitLines(truncateAtBoundary(content, l.MaxBytes)),
           position |-> IF r.position = "" THEN "head" ELSE r.position]
     ELSE [content |-> content, result |-> r.result, position |-> r.position]

LimitText(in, l) ==
  IF in = << >>
  THEN [Content |-> in, Truncated |-> FALSE, TruncationInfo |-> << >>]
  ELSE LET lines == splitLines(in)
           trailingNewline == Len(in) > 0 /\ in[Len(in)] = NL
           r == MaxBytesStep(MaxLinesStep(HeadTail(lines, l), l), trailingNewline, l)
       IN IF Len(r.content) = Len(in)
          THEN [Content |-> r.content, Truncated |-> FALSE, TruncationInfo |-> << >>]
          ELSE [Content |-> r.content,
                Truncated |-> TRUE,
                TruncationInfo |->
                  << [OriginalBytes |-> Len(in),
                      OriginalLines |-> Len(lines),
                      KeptBytes |-> Len(r.content),
                      KeptLines |-> Len(r.result),
                      Position |-> r.position] >>]

\* the TextLimits of the model
TextLimits ==
  [Head : 0..MaxLimit, Tail : 0..MaxLimit, MaxLines : 0..MaxLimit, MaxBytes : 0..MaxLen]

InitTextSpec ==
  /\ opts \in WireOptions
  /\ InitRun
  /\ InitHandle
  /\ InitStdio
  /\ InitReader
  /\ InitRegistry
  /\ InitLibrary
  /\ input \in Strings(MaxLen)
  /\ limits \in TextLimits
  /\ limited = << >>

\* a caller calls LimitText(input, limits)
LimitTextCall ==
  /\ limited = << >>
  /\ limited' = << LimitText(input, limits) >>
  /\ UNCHANGED << opts, initialized, runVars, handleVars, stdioVars, readerVars,
                  registryVars, libraryVars, input, limits >>

NextText == LimitTextCall

TextSpec == InitTextSpec /\ [][NextText]_vars

(***************************************************************************)
(* Stdio.Read, and Run reading from it.  A line of the stream is its       *)
(* length in bytes without the newline, whether its bytes are the JSON of  *)
(* an envelope, and that envelope.                                         *)
(***************************************************************************)
\* NewStdio: the scanner's maximum token size
MaxMessageSize == 1024 * 1024

\* the requests the lines of the model carry
LineEnvelopes ==
  { m \in Envelopes : m.id \in Ids /\ m.method = MethodInitialize /\ m.params = "valid" }

BlankLine == [size |-> 0, json |-> FALSE, msg |-> NoEnvelope]

\* a line that is not JSON
GarbageLine == [size |-> 8, json |-> FALSE, msg |-> NoEnvelope]

\* an envelope on a short line, or on the longest line the scanner takes
JsonLine(m) == [size |-> IF m.id = 1 THEN 64 ELSE MaxMessageSize - 1, json |-> TRUE, msg |-> m]

\* an envelope on a line of more than the maximum
LongLine(m) == [size |-> MaxMessageSize + 1, json |-> TRUE, msg |-> m]

Lines ==
  {BlankLine, GarbageLine}
    \cup { JsonLine(m) : m \in LineEnvelopes }
    \cup { LongLine(m) : m \in { e \in LineEnvelopes : e.id = 1 } }

RECURSIVE Streams(_)
Streams(n) ==
  IF n = 0 THEN {<< >>}
  ELSE Streams(n - 1) \cup { Append(s, l) : s \in { x \in Streams(n - 1) : Len(x) = n - 1 }, l \in Lines }

\* bufio.Scanner: the buffer is full and holds no newline
TooLongMutant(line) == FALSE

TooLong(line) == line.size >= MaxMessageSize

\* len(line) == 0
IsBlankMutant(line) == FALSE

IsBlank(line) == line.size = 0

\* Stdio.Read with pos lines of s consumed: what it returns, and how many
\* lines are consumed then
RECURSIVE Read(_, _)
Read(s, pos) ==
  IF pos = Len(s)
  THEN [kind |-> "eof", msg |-> NoEnvelope, pos |-> pos]
  ELSE IF TooLong(s[pos + 1])
  THEN [kind |-> "err", msg |-> NoEnvelope, pos |-> pos]
  ELSE IF IsBlank(s[pos + 1])
  THEN Read(s, pos + 1)
  ELSE IF ~s[pos + 1].json
  THEN [kind |-> "err", msg |-> NoEnvelope, pos |-> pos + 1]
  ELSE [kind |-> "msg", msg |-> s[pos + 1].msg, pos |-> pos + 1]

\* the streams of the model: no more envelopes than Run has task slots
InputStreams ==
  { s \in Streams(MaxInput) :
      Cardinality({ i \in 1..Len(s) : s[i].json /\ ~TooLong(s[i]) }) <= MaxReads }

InitReadSpec ==
  /\ opts \in WireOptions
  /\ InitRun
  /\ InitHandle
  /\ InitStdio
  /\ InitOutside
  /\ stdin \in InputStreams
  /\ scanned = 0
  /\ lateReads = {}

\* Run's msg, err := s.transport.Read() on a Stdio
StdioRead ==
  LET r == Read(stdin, scanned) IN
  /\ scanned' = r.pos
  /\ stdin' = stdin
  /\ lateReads' = lateReads
  /\ CASE r.kind = "msg" -> ReadMessage(r.msg)
       [] r.kind = "eof" -> ReadEOF
       [] r.kind = "err" -> ReadError

NextRead ==
  \/ RunSelect
  \/ StdioRead
  \/ gracefulShutdown
  \/ RunReturn
  \/ \E t \in 1..MaxReads, p \in ProviderOutcomes : TaskHandle(t, p)
  \/ \E t \in 1..MaxReads, ok \in BOOLEAN : TaskWrite(t, ok)

ReadSpec == InitReadSpec /\ [][NextRead]_vars

(***************************************************************************)
(* The transport's write path.                                             *)
(***************************************************************************)
\* the callers of Write inside the critical section
Holding == { w \in Writers : wr[w].pc \in {"fprintf", "unlock"} }

\* s is made of one segment per writer of W that wrote anything, each the
\* first wr[w].n bytes of that writer's line; partial(w) says whether the
\* segment of w may be less than the whole line
RECURSIVE Segmented(_, _, _)
Segmented(s, W, partial) ==
  \/ s = << >>
  \/ \E w \in W :
       LET n == wr[w].n IN
       /\ n > 0
       /\ n <= Len(s)
       /\ SubSeq(s, 1, n) = SubSeq(Line(w), 1, n)
       /\ n = Len(Line(w)) \/ partial[w]
       /\ Segmented(SubSeq(s, n + 1, Len(s)), W \ {w}, partial)

\* C12 as written: the stream is always a concatenation of whole
\* newline-terminated envelopes, apart from the one being emitted right now.
C12_WholeEnvelopes ==
  Segmented(stream, Writers, [w \in Writers |-> wr[w].pc = "fprintf"])

\* C12: at most one caller of Write is inside the critical section, and the
\* stream is a concatenation of segments that each hold bytes of one
\* envelope only, in order; a segment is the whole newline-terminated
\* envelope unless its Write is still emitting or has failed.
C12_WritesExclusive ==
  /\ Cardinality(Holding) <= 1
  /\ mu = "unlocked" => Holding = {}
  /\ Segmented(stream, Writers,
               [w \in Writers |-> wr[w].pc = "fprintf" \/ wr[w].err # Absent])

\* both tasks called Write at once, the second got the lock first, and the
\* stream holds its whole line and then the first one's
C12_Witness ==
  /\ \A w \in Writers : wr[w].pc = "done" /\ wr[w].err = Absent
  /\ SubSeq(stream, 1, Len(Line(2)) + Len(Line(1))) = Line(2) \o Line(1)

(***************************************************************************)
(* State shared between handler tasks.                                     *)
(***************************************************************************)
\* task t's goroutine is inside Handle on the path that executes
\* h.initialized = true; Handle takes no lock
WritesInitialized(t) ==
  /\ tasks[t].pc = "handle"
  /\ tasks[t].msg.method = MethodInitialize
  /\ Unmarshal(tasks[t].msg.params)

\* C13: no two handler tasks are at the same time free to write the
\* handler's session state (h.initialized): outside the transport's write
\* path, handler tasks share no mutable state that they access without
\* mutual exclusion.
C13_OnlyWritePathShared ==
  \A t1, t2 \in 1..MaxReads :
    (t1 # t2) => ~(Alive /\ WritesInitialized(t1) /\ WritesInitialized(t2))

(***************************************************************************)
(* Handlers that take long.                                                *)
(***************************************************************************)
\* C14: however many handler tasks are still running, and for however long:
\* with no shutdown signal the loop goes from the select to Read, a Read in
\* progress can return the next envelope and launch its task (no admission
\* limit), and every other task can run its handler and write its response.
C14_SlowHandlerBlocksNothing ==
  /\ (Alive /\ runPc = "select" /\ ~ctxDone /\ done = "open") => ENABLED RunSelect
  /\ (Alive /\ runPc = "read" /\ nread < MaxReads) =>
       \A m \in WireEnvelopes : ENABLED ReadMessage(m)
  /\ \A t \in 1..MaxReads :
       /\ (Alive /\ tasks[t].pc = "handle") =>
            \A p \in ProviderOutcomes : ENABLED TaskHandle(t, p)
       /\ (Alive /\ tasks[t].pc = "write") => ENABLED TaskWrite(t, TRUE)

\* the first request's handler is still running when the second request,
\* read after it, has been handled and answered
C14_Witness ==
  /\ nread = 2
  /\ tasks[1].pc = "handle"
  /\ IsRequest(tasks[1].msg)
  /\ tasks[2].pc = "done"
  /\ Len(written) = 1
  /\ Len(submitted) = 2
  /\ written[1].id = submitted[2].id

(***************************************************************************)
(* The session's initialized flag.                                         *)
(***************************************************************************)
\* C15: h.initialized is false when the handler is created; once true it
\* stays true; it turns true only in the dispatch of an initialize envelope
\* whose params decoded; the dispatch of an initialize envelope whose params
\* do not decode leaves it as it was.
C15_InitializedOneWay ==
  /\ ~initialized
  /\ [][ /\ initialized => initialized'
         /\ (~initialized /\ initialized') =>
              (req'.method = MethodInitialize /\ Unmarshal(req'.params))
         /\ (req'.method = MethodInitialize /\ ~Unmarshal(req'.params)) =>
              initialized' = initialized ]_vars

\* after a successful initialize, an initialize request without params is
\* refused and the flag is still true
C15_Witness ==
  /\ ndisp = 2
  /\ wasInit
  /\ initialized
  /\ IsRequest(req)
  /\ req.method = MethodInitialize
  /\ req.params = "absent"
  /\ out.resp.code = InvalidParams

\* C16: what Handle answers to an envelope whose method is not initialize is
\* the same before and after the flag turns true, whatever the envelope and
\* the provider's outcome; and a tools/list request with a tool provider
\* wired gets its result whether or not initialize was handled before.
C16_FlagGatesNothing ==
  /\ (Dispatched /\ IsRequest(req) /\ req.method = MethodToolsList
        /\ opts.Tools /\ prov = "ok") =>
       (out.resp.id = req.id /\ out.resp.result = "ToolsListResult")
  /\ [][ (initialized' # initialized) =>
           \A m \in Envelopes, p \in ProviderOutcomes :
             (m.method # MethodInitialize) =>
               Handle(m, opts, p) = (Handle(m, opts, p))' ]_vars

\* tools/list is asked first, before any initialize, and succeeds
C16_Witness ==
  /\ ndisp = 1
  /\ ~wasInit
  /\ ~initialized
  /\ IsRequest(req)
  /\ req.method = MethodToolsList
  /\ opts.Tools
  /\ out.resp.result = "ToolsListResult"

(***************************************************************************)
(* Capabilities.                                                           *)
(***************************************************************************)
\* the capability groups an initialize result must carry under wiring o
Wired(o) ==
  { c \in CapabilityNames :
      \/ c = "tools" /\ o.Tools
      \/ c = "resources" /\ o.Resources
      \/ c = "prompts" /\ o.Prompts }

\* the dispatch answered an initialize request with a result
InitializeAnswered ==
  /\ Dispatched
  /\ IsRequest(req)
  /\ req.method = MethodInitialize
  /\ out.resp.result # Absent

\* C17: the result of an initialize request carries the tools (resources,
\* prompts) capability exactly when Options.Tools (Resources, Prompts) is
\* non-nil, and two initialize requests of one session get the same
\* capabilities.
C17_CapabilitiesFollowWiring ==
  /\ [](InitializeAnswered => out.resp.result = InitializeResult(Wired(opts)))
  /\ [][ (InitializeAnswered /\ InitializeAnswered') =>
           out'.resp.result = out.resp.result ]_vars

\* a second initialize request, on a server with tools and prompts but no
\* resources, is answered with those two capabilities
C17_Witness ==
  /\ ndisp = 2
  /\ wasInit
  /\ InitializeAnswered
  /\ opts.Tools /\ ~opts.Resources /\ opts.Prompts
  /\ out.resp.result = InitializeResult({"tools", "prompts"})

(***************************************************************************)
(* Errors of the dispatcher.                                               *)
(***************************************************************************)
\* C18: a request whose method is outside the switch is answered by a
\* MethodNotFound error response under its id; a notification whose method
\* is outside the switch gets no response, no Go error, and nothing is
\* written.
C18_UnknownMethod ==
  (Dispatched /\ req.method # Absent /\ req.method \notin KnownMethods) =>
    /\ ~out.panicked
    /\ out.err = Absent
    /\ IsRequest(req) =>
         /\ out.resp.id = req.id
         /\ out.resp.code = MethodNotFound
         /\ out.resp.message = "method not found: " \o req.method
         /\ out.resp.result = Absent
    /\ req.id = NilID =>
         /\ out.resp = NilMsg
         /\ ToWrite(req, out) = NilMsg

\* an unknown-method notification was dispatched after another envelope and
\* the session goes on
C18_Witness ==
  /\ ndisp = 2
  /\ req.id = NilID
  /\ req.method = UnknownMethod
  /\ out.resp = NilMsg
  /\ ~out.panicked

\* the handler of the dispatched method needs its provider, and has it
ProviderWired == req.method \in GatedMethods => opts[Provider(req.method)]

\* the dispatched request is one whose params the handler decodes, and they
\* do not decode
DecodeFails ==
  /\ Dispatched
  /\ IsRequest(req)
  /\ req.method \in ParamMethods
  /\ ~Unmarshal(req.params)

\* the answer of a failed decode: InvalidParams under the request's id, the
\* fixed message, no data, and the same whatever the provider would have
\* done (it was not called)
InvalidParamsAnswer ==
  /\ ~out.panicked
  /\ out.err = Absent
  /\ out.resp.id = req.id
  /\ out.resp.code = InvalidParams
  /\ out.resp.message = "invalid params"
  /\ out.resp.data = Absent
  /\ out.resp.result = Absent
  /\ \A p \in ProviderOutcomes : Handle(req, opts, p) = out

\* C19 as written: every request for initialize, tools/call, resources/read
\* or prompts/get whose params fail to decode is answered by InvalidParams
\* with the fixed message and no data, the provider not called.
C19_DecodeFailureInvalidParams == DecodeFails => InvalidParamsAnswer

\* C19: a request for initialize, or for tools/call, resources/read or
\* prompts/get with the method's provider wired, whose params fail to decode
\* (absent included) is answered by InvalidParams under its id, message
\* "invalid params", data unset, and the provider is not called.
C19_DecodeFailureWhenWired ==
  (DecodeFails /\ ProviderWired) => InvalidParamsAnswer

\* resources/read without params, resource provider wired
C19_Witness ==
  /\ DecodeFails
  /\ req.method = MethodResourcesRead
  /\ req.params = "absent"
  /\ opts.Resources
  /\ prov = "error"
  /\ out.resp.code = InvalidParams

\* the dispatched request reached its provider, and the provider failed
ProviderFailed ==
  /\ Dispatched
  /\ IsRequest(req)
  /\ req.method \in GatedMethods
  /\ ProviderWired
  /\ ParamsDecode(req)
  /\ prov = "error"

\* C20: when the provider call of a request returns an error, Handle returns
\* an InternalError response with that error's message under the request's
\* id and no Go error, it does not fault, and the next envelope can be
\* dispatched.
C20_ProviderErrorAnswered ==
  ProviderFailed =>
    /\ ~out.panicked
    /\ out.err = Absent
    /\ out.resp.id = req.id
    /\ out.resp.code = InternalError
    /\ out.resp.message = ProviderErrText
    /\ out.resp.result = Absent
    /\ ToWrite(req, out) = out.resp
    /\ ndisp < MaxDispatch =>
         \A m \in Envelopes : ENABLED Dispatch(m, "ok")

\* a prompts/get request whose provider failed, answered under its id
C20_Witness ==
  /\ ProviderFailed
  /\ req.method = MethodPromptsGet
  /\ req.id = 1
  /\ out.resp.id = 1
  /\ out.resp.message = ProviderErrText

(***************************************************************************)
(* What a handler task writes.                                             *)
(***************************************************************************)
\* what handleMessage is to write for envelope m when Handle returned h: the
\* envelope w, or nothing when w is NilMsg
WritesFor(m, h, w) ==
  IF h.err # Absent
  THEN IF IsRequest(m)
       THEN /\ w.id = m.id
            /\ w.code = InternalError
            /\ w.message = h.err
            /\ w.result = Absent
       ELSE w = NilMsg
  ELSE w = h.resp

\* the calls of transport.Write so far
WriteCalls == Len(written) + writeErrs

\* C21: a handler task calls Write at most once, and only tasks call it: with
\* the envelope WritesFor gives for what Handle returned (a synthesized
\* InternalError under the request's id when Handle returned an error for a
\* request, nothing when it returned an error for a notification, otherwise
\* the response Handle produced, or nothing when that is nil).
C21_OneWritePerEnvelope ==
  /\ [](WriteCalls <= Cardinality({ t \in 1..MaxReads : tasks[t].pc = "done" }))
  /\ [][ \A t \in 1..MaxReads :
           (tasks[t].pc = "handle" /\ tasks'[t].pc # "handle") =>
             \E p \in ProviderOutcomes :
               LET h == Handle(tasks[t].msg, opts, p)
                   w == IF tasks'[t].pc = "write" THEN tasks'[t].resp ELSE NilMsg
               IN /\ ~h.panicked
                  /\ WritesFor(tasks[t].msg, h, w)
                  /\ tasks'[t].pc = (IF w = NilMsg THEN "done" ELSE "write")
                  /\ UNCHANGED << written, writeErrs >> ]_vars
  /\ [][ \A t \in 1..MaxReads :
           (tasks[t].pc = "write" /\ tasks'[t].pc # "write") =>
             /\ tasks'[t].pc = "done"
             /\ WriteCalls' = WriteCalls + 1
             /\ written' # written => written' = Append(written, tasks[t].resp) ]_vars
  /\ [][ WriteCalls' # WriteCalls =>
           \E t \in 1..MaxReads : tasks[t].pc = "write" /\ tasks'[t].pc = "done" ]_vars

\* a tools/list request whose result could not be encoded was answered by
\* the synthesized InternalError, and that is the only envelope written
C21_Witness ==
  /\ nread = 1
  /\ Len(submitted) = 1
  /\ submitted[1].method = MethodToolsList
  /\ tasks[1].pc = "done"
  /\ written = << NewErrorResponse(submitted[1].id, InternalError,
                                   "json: error calling MarshalJSON", Absent).resp >>

\* C22: every response the dispatcher produces, and every envelope
\* handleMessage gives to Write, has an id, no method, and exactly one of
\* result and error.
C22_ResultXorError ==
  Dispatched =>
    \A w \in {out.resp, ToWrite(req, out)} :
      (w # NilMsg) =>
        /\ w.method = Absent
        /\ (w.result # Absent) # (w.code # Absent)
        /\ w.code = Absent => (w.message = Absent /\ w.data = Absent)

\* a tools/list request whose result did not encode: Handle produced no
\* response and handleMessage made the error response
C22_Witness ==
  /\ Dispatched
  /\ IsRequest(req)
  /\ out.err # Absent
  /\ out.resp = NilMsg
  /\ ToWrite(req, out).code = InternalError
  /\ ToWrite(req, out).result = Absent

(***************************************************************************)
(* output.LimitText.                                                       *)
(***************************************************************************)
\* LimitText has returned
LimitTextReturned == Len(limited) = 1

\* the number of lines of a string, counted as LimitText counts them
LineCount(s) == Len(splitLines(s))

\* limit n is not set, or is at least m
NotBinding(n, m) == n = 0 \/ n >= m

\* no limit binds: every limit is zero or at least what it limits
NoLimitBinds ==
  /\ NotBinding(limits.Head, LineCount(input))
  /\ NotBinding(limits.Tail, LineCount(input))
  /\ NotBinding(limits.MaxLines, LineCount(input))
  /\ NotBinding(limits.MaxBytes, Len(input))

\* C27: when no limit binds (all are zero, Head or Tail is at least the
\* number of lines, MaxBytes is at least the byte length), LimitText returns
\* the input unchanged, Truncated false and no TruncationInfo.
C27_PassThrough ==
  (LimitTextReturned /\ NoLimitBinds) =>
    limited[1] = [Content |-> input, Truncated |-> FALSE, TruncationInfo |-> << >>]

\* s is a prefix of t
IsPrefix(s, t) == Len(s) <= Len(t) /\ s = SubSeq(t, 1, Len(s))

\* the text that remains after the Head/Tail and MaxLines steps
AfterLineSteps ==
  LET r == MaxLinesStep(HeadTail(splitLines(input), limits), limits)
  IN joinLines(r.result, input # << >> /\ input[Len(input)] = NL /\ r.position = "")

\* C28: with MaxBytes > 0, the content LimitText returns is at most MaxBytes
\* bytes long and is a prefix of the text that remained after the Head/Tail
\* and MaxLines steps.
C28_MaxBytesBound ==
  (LimitTextReturned /\ limits.MaxBytes > 0) =>
    /\ Len(limited[1].Content) <= limits.MaxBytes
    /\ IsPrefix(limited[1].Content, AfterLineSteps)

\* the byte limit falls inside a two-byte rune: the whole rune is dropped
C28_Witness ==
  /\ LimitTextReturned
  /\ input = << "a", "lead", "cont", NL >>
  /\ limits.MaxBytes = 2
  /\ limits.Head = 0 /\ limits.Tail = 0 /\ limits.MaxLines = 0
  /\ limited[1].Content = << "a" >>
  /\ limited[1].Truncated

\* C29: LimitText applies Head/Tail, then MaxLines, then MaxBytes, and when
\* Head and Tail are both set Head wins and Tail is ignored: the result is
\* the one the same call gives with Tail zero.
C29_HeadWinsOverTail ==
  (LimitTextReturned /\ limits.Head > 0 /\ limits.Tail > 0) =>
    limited[1] = LimitText(input, [limits EXCEPT !.Tail = 0])

\* C30: Truncated is true exactly when Content differs from the input, and
\* TruncationInfo is non-nil exactly when Truncated is true; when present,
\* OriginalBytes and OriginalLines are the input's byte length and line
\* count, KeptBytes and KeptLines those of Content, and Position is "head"
\* or "tail".
C30_TruncationInfoAccurate ==
  LimitTextReturned =>
    LET r == limited[1] IN
    /\ r.Truncated <=> (r.Content # input)
    /\ (r.TruncationInfo # << >>) <=> r.Truncated
    /\ (r.TruncationInfo # << >>) =>
         /\ r.TruncationInfo[1].OriginalBytes = Len(input)
         /\ r.TruncationInfo[1].OriginalLines = LineCount(input)
         /\ r.TruncationInfo[1].KeptBytes = Len(r.Content)
         /\ r.TruncationInfo[1].KeptLines = LineCount(r.Content)
         /\ r.TruncationInfo[1].Position \in {"head", "tail"}

(***************************************************************************)
(* Reading from Stdio.                                                     *)
(***************************************************************************)
\* id and method of the envelopes on the lines of s that parse, in order
RECURSIVE Parsed(_)
Parsed(s) ==
  IF s = << >> THEN << >>
  ELSE (IF s[1].json /\ s[1].size < MaxMessageSize
        THEN << [id |-> s[1].msg.id, method |-> s[1].msg.method] >>
        ELSE << >>) \o Parsed(Tail(s))

\* the lines the scanner has consumed, and those it has not
Consumed == SubSeq(stdin, 1, scanned)

Remaining == SubSeq(stdin, scanned + 1, Len(stdin))

\* line i is over the maximum and Run gets to it: every line before it is
\* blank or parses
ReachesLongLine(i) ==
  /\ stdin[i].size > MaxMessageSize
  /\ \A j \in 1..(i - 1) : stdin[j].size = 0 \/ (stdin[j].json /\ stdin[j].size < MaxMessageSize)

\* C23: a line longer than the reader's maximum is never consumed, whole or
\* in part, and neither is any line after it: the Read that meets it returns
\* an error, Run shuts down (tasks drained, transport closed) and returns
\* that error, having read exactly the envelopes before that line.
C23_LongLineFatal ==
  \A i \in 1..Len(stdin) :
    /\ stdin[i].size > MaxMessageSize => scanned < i
    /\ (ReachesLongLine(i) /\ scanned = i - 1 /\ runPc \in {"shutdown", "return", "returned"}) =>
         /\ cause = "readerr"
         /\ submitted = Parsed(SubSeq(stdin, 1, i - 1))
         /\ nread = Len(submitted)
    /\ (ReachesLongLine(i) /\ Returned) =>
         /\ scanned = i - 1
         /\ result = "reading message: err"
         /\ TasksEnded
         /\ transportCloses = 1

\* a request, then a line over the maximum, then another request: Run has
\* returned the error and only the first request was read and answered
C23_Witness ==
  /\ Len(stdin) = 3
  /\ stdin[1] = JsonLine([id |-> 2, method |-> MethodInitialize, params |-> "valid"])
  /\ stdin[2].size > MaxMessageSize
  /\ stdin[3].json
  /\ Returned
  /\ result = "reading message: err"
  /\ Len(written) = 1
  /\ written[1].id = 2

\* s holds blank lines only
AllBlank(s) == \A i \in 1..Len(s) : s[i].size = 0

\* C24: blank lines are skipped: the envelopes Read has returned are those
\* of the non-blank lines consumed so far, in order (a non-blank line that
\* does not parse gives an error, a blank one never does), and Read returns
\* end-of-stream exactly when only blank lines, or none, remain.
C24_BlankLinesSkipped ==
  /\ [](/\ submitted = Parsed(Consumed)
        /\ nread = Len(submitted)
        /\ cause = "eof" => (scanned = Len(stdin) /\ submitted = Parsed(stdin))
        /\ cause = "readerr" =>
             \/ scanned > 0 /\ stdin[scanned].size > 0 /\ ~stdin[scanned].json
             \/ scanned < Len(stdin) /\ stdin[scanned + 1].size >= MaxMessageSize)
  /\ [][ (runPc = "read" /\ runPc' # "read") =>
           /\ AllBlank(Remaining) <=> (cause' = "eof")
           /\ cause' = "eof" => scanned' = Len(stdin)
           /\ nread' # nread =>
                \E k \in (scanned + 1)..Len(stdin) :
                  /\ scanned' = k
                  /\ AllBlank(SubSeq(stdin, scanned + 1, k - 1))
                  /\ tasks'[nread'].msg = stdin[k].msg ]_vars

\* blank lines before, between and after two requests: both were read in
\* order and Run ended on end-of-stream
C24_Witness ==
  /\ Len(stdin) = 3
  /\ stdin[1].size = 0
  /\ stdin[2].json
  /\ stdin[3].size = 0
  /\ cause = "eof"
  /\ Returned
  /\ result = "nil"
  /\ Len(submitted) = 1
  /\ submitted[1].id = stdin[2].msg.id

\* C25: a non-blank line that does not parse is dropped and the session goes
\* on: once Run has returned, with no line over the maximum and no failed
\* Write, every envelope of the stream, those after the malformed line
\* included, was read and answered.
C25_MalformedLineDropped ==
  (Returned /\ writeErrs = 0 /\ \A i \in 1..Len(stdin) : stdin[i].size < MaxMessageSize) =>
    /\ submitted = Parsed(stdin)
    /\ Len(written) = Len(submitted)
    /\ IdsOf(written) = IdsOf(submitted)

(***************************************************************************)
(* ToolRegistry as the server's tool provider.  A handler is known by the  *)
(* Register call that passed it (tag) and by what it returns when called.  *)
(***************************************************************************)
MaxRegister == 3

\* the names tools are registered under, and the names clients ask for
ToolNames == {"echo", "grep"}

CallNames == ToolNames \cup {"missing"}

\* what a ToolHandler returns: a result, a result flagged isError, or a Go
\* error
HandlerOutcomes == {"ok", "toolerror", "error"}

ToolHandlers == [tag : 1..MaxRegister, outcome : HandlerOutcomes]

\* protocol.TextContent(text)
TextContent(text) == [Type |-> "text", Text |-> text]

\* protocol.ErrorResult(msg)
ErrorResult(msg) == [Content |-> << TextContent(msg) >>, IsError |-> TRUE]

\* handler(ctx, args): the (result, err) the handler returns
HandlerReturn(h) ==
  CASE h.outcome = "ok" ->
         [result |-> [Content |-> << TextContent("done") >>, IsError |-> FALSE],
          err |-> Absent, ran |-> h]
    [] h.outcome = "toolerror" ->
         [result |-> ErrorResult("tool failed"), err |-> Absent, ran |-> h]
    [] OTHER ->
         [result |-> NilResult, err |-> ProviderErrText, ran |-> h]

\* ToolRegistry.ListTools: the names of r.tools, in order
ListTools(r) == r.tools

\* ToolRegistry.CallTool(ctx, name, args)
CallToolMutant(r, name) ==
  IF name \notin DOMAIN r.handlers
  THEN [result |-> NilResult, err |-> "unknown tool: " \o name, ran |-> NoHandler]
  ELSE HandlerReturn(r.handlers[name])

CallTool(r, name) ==
  IF name \notin DOMAIN r.handlers
  THEN [result |-> ErrorResult("unknown tool: " \o name), err |-> Absent, ran |-> NoHandler]
  ELSE HandlerReturn(r.handlers[name])

\* the server was built with the registry as Options.Tools
InitRegistrySpec ==
  /\ opts \in { o \in Options : o.Tools }
  /\ InitRun
  /\ InitHandle
  /\ InitStdio
  /\ InitText
  /\ InitRegistry
  /\ InitLibrary
  /\ InitReader

\* r.Register(name, description, schema, handler), the tag saying which call
\* of Register passed the handler
RegisterMutant(name, outcome) ==
  /\ Len(registry.tools) < MaxRegister
  /\ ~out.panicked
  /\ registry' =
       [tools |-> Append(registry.tools, name),
        handlers |-> registry.handlers
                       @@ (name :> [tag |-> Len(registry.tools) + 1, outcome |-> outcome])]
  /\ registered' = Append(registered, [name |-> name, outcome |-> outcome])
  /\ UNCHANGED << opts, initialized, runVars, handleVars, stdioVars, textVars,
                  readerVars, libraryVars, called >>

Register(name, outcome) ==
  /\ Len(registry.tools) < MaxRegister
  /\ ~out.panicked
  /\ registry' =
       [tools |-> Append(registry.tools, name),
        handlers |-> (name :> [tag |-> Len(registry.tools) + 1, outcome |-> outcome])
                       @@ registry.handlers]
  /\ registered' = Append(registered, [name |-> name, outcome |-> outcome])
  /\ UNCHANGED << opts, initialized, runVars, handleVars, stdioVars, textVars,
                  readerVars, libraryVars, called >>

\* the tools/call envelopes clients send
ToolCallEnvelopes ==
  [id : Ids \cup {NilID}, method : {MethodToolsCall}, params : ParamShapes]

\* Handle(ctx, m) for a tools/call envelope whose params, where they decode,
\* name the tool: handleToolsCall reaches CallTool past the provider check
\* and the decoding of params, and answers with what CallTool returned
ToolsCall(m, name) ==
  LET r == CallTool(registry, name)
      p == IF r.err = Absent THEN "ok" ELSE "error"
  IN /\ ~out.panicked
     /\ req' = m
     /\ prov' = p
     /\ wasInit' = initialized
     /\ out' = handleToolsCall(m, opts, p)
     /\ called' = IF opts.Tools /\ Unmarshal(m.params)
                  THEN [name |-> name, result |-> r.result, err |-> r.err, ran |-> r.ran]
                  ELSE NoCall
     /\ UNCHANGED << opts, initialized, runVars, ndisp, stdioVars, textVars,
                     readerVars, libraryVars, registry, registered >>

NextRegistry ==
  \/ \E name \in ToolNames, outcome \in HandlerOutcomes : Register(name, outcome)
  \/ \E m \in ToolCallEnvelopes, name \in CallNames : ToolsCall(m, name)

RegistrySpec == InitRegistrySpec /\ [][NextRegistry]_vars

\* a tools/call request was handled and its params named a tool
ToolCalled ==
  /\ req.method = MethodToolsCall
  /\ IsRequest(req)
  /\ Unmarshal(req.params)
  /\ called # NoCall

\* C26: a tools/call request naming a tool that was never registered gets a
\* success response, result set and no error code, whose result is the
\* ToolCallResult CallTool returned: isError true with the one text content
\* 'unknown tool: <name>'; CallTool returned no Go error and ran no handler.
C26_UnknownToolIsToolError ==
  (ToolCalled /\ \A i \in 1..Len(registry.tools) : registry.tools[i] # called.name) =>
    /\ ~out.panicked
    /\ out.err = Absent
    /\ out.resp.id = req.id
    /\ out.resp.result = "ToolCallResult"
    /\ out.resp.code = Absent
    /\ called.result.IsError
    /\ called.result.Content = << [Type |-> "text", Text |-> "unknown tool: " \o called.name] >>
    /\ called.err = Absent
    /\ called.ran = NoHandler

\* two tools are registered and a request asked for a third
C26_Witness ==
  /\ Len(registry.tools) = 2
  /\ registry.tools[1] # registry.tools[2]
  /\ ToolCalled
  /\ req.id = 1
  /\ called.name = "missing"
  /\ called.result.Content[1].Text = "unknown tool: missing"
  /\ out.resp.result = "ToolCallResult"

(***************************************************************************)
(* LimitArray, called on every slice of up to MaxArray elements with       *)
(* every limit and offset around that range.                               *)
(***************************************************************************)
MaxArray == 3

Elements == {"x", "y"}

Slices == UNION { [1..n -> Elements] : n \in 0..MaxArray }

ArrayLimits == [Limit : (-1)..(MaxArray + 1), Offset : (-1)..(MaxArray + 1)]

\* offset := limits.Offset, clamped to 0 and to total
ClampOffset(total, l) ==
  LET offset == IF l.Offset < 0 THEN 0 ELSE l.Offset
  IN IF offset > total THEN total ELSE offset

\* the page cut from rest (items[offset:]) and hasMore
PageMutant(rest, l) ==
  IF l.Limit > 0 /\ l.Limit <= Len(rest)
  THEN [result |-> SubSeq(rest, 1, l.Limit), hasMore |-> TRUE]
  ELSE [result |-> rest, hasMore |-> FALSE]

Page(rest, l) ==
  IF l.Limit > 0 /\ l.Limit < Len(rest)
  THEN [result |-> SubSeq(rest, 1, l.Limit), hasMore |-> TRUE]
  ELSE [result |-> rest, hasMore |-> FALSE]

\* effectiveLimit
EffectiveLimitMutant(total, l) == l.Limit

EffectiveLimit(total, l) == IF l.Limit <= 0 THEN total ELSE l.Limit

LimitArray(its, l) ==
  LET total == Len(its)
      offset == ClampOffset(total, l)
      page == Page(SubSeq(its, offset + 1, total), l)
  IN [Items |-> page.result,
      Truncated |-> Len(page.result) # total,
      TotalCount |-> total,
      Pagination |-> [Offset |-> offset,
                      Limit |-> EffectiveLimit(total, l),
                      Total |-> total,
                      HasMore |-> page.hasMore]]

InitArraySpec ==
  /\ InitExceptArray
  /\ items \in Slices
  /\ arrayLimits \in ArrayLimits
  /\ limitedArray = << >>

\* a caller calls LimitArray(items, arrayLimits)
LimitArrayCall ==
  /\ limitedArray = << >>
  /\ limitedArray' = << LimitArray(items, arrayLimits) >>
  /\ UNCHANGED << exceptArray, items, arrayLimits >>

NextArray == LimitArrayCall

ArraySpec == InitArraySpec /\ [][NextArray]_vars

LimitArrayReturned == Len(limitedArray) = 1

\* o clamped into [0, n]
Clamped(o, n) == IF o < 0 THEN 0 ELSE IF o > n THEN n ELSE o

\* how many elements the page starting at off holds
PageLen(off) ==
  LET rest == Len(items) - off
  IN IF arrayLimits.Limit > 0 /\ arrayLimits.Limit < rest THEN arrayLimits.Limit ELSE rest

\* C31: Items is the window of the input that starts at the clamped offset
\* and holds at most Limit elements (all the remaining ones when Limit <= 0),
\* in the input's order; Pagination.Offset is the clamped offset, TotalCount
\* and Pagination.Total are len(items), Pagination.Limit is Limit when
\* positive and len(items) otherwise.
C31_WindowAndCounts ==
  LimitArrayReturned =>
    LET r == limitedArray[1]
        off == Clamped(arrayLimits.Offset, Len(items))
    IN /\ Len(r.Items) = PageLen(off)
       /\ \A i \in 1..Len(r.Items) : r.Items[i] = items[off + i]
       /\ r.Pagination.Offset = off
       /\ r.TotalCount = Len(items)
       /\ r.Pagination.Total = Len(items)
       /\ r.Pagination.Limit = IF arrayLimits.Limit > 0 THEN arrayLimits.Limit ELSE Len(items)

\* the second element of three, asked for by offset 1 and limit 1; and a
\* call with no limit reports the length as its limit
C31_Witness ==
  /\ LimitArrayReturned
  /\ items = << "x", "y", "x" >>
  /\ arrayLimits = [Limit |-> 1, Offset |-> 1]
  /\ limitedArray[1].Items = << "y" >>
  /\ limitedArray[1].Pagination.Limit = 1

\* C32: HasMore is true exactly when input elements remain after the
\* returned page, Truncated exactly when the page is not the whole input;
\* an empty input is never truncated and never has more.
C32_HasMoreAndTruncated ==
  LimitArrayReturned =>
    LET r == limitedArray[1]
    IN /\ r.Pagination.HasMore <=> (r.Pagination.Offset + Len(r.Items) < r.Pagination.Total)
       /\ r.Pagination.HasMore <=>
            (Clamped(arrayLimits.Offset, Len(items)) + Len(r.Items) < Len(items))
       /\ r.Truncated <=> (Len(r.Items) # Len(items))
       /\ items = << >> => (~r.Truncated /\ ~r.Pagination.HasMore)

\* a page that ends exactly at the end of the input: truncated, nothing more
C32_Witness ==
  /\ LimitArrayReturned
  /\ Len(items) = 3
  /\ arrayLimits = [Limit |-> 2, Offset |-> 1]
  /\ limitedArray[1].Truncated
  /\ ~limitedArray[1].Pagination.HasMore

(***************************************************************************)
(* Defaults.MergeTextLimits and Defaults.MergeArrayLimits, each applied to *)
(* the user's limits and then to its own result.                           *)
(***************************************************************************)
MaxDefault == 2

MaxMerges == 2

DefaultsValues ==
  [MaxBytes : 0..MaxDefault, MaxLines : 0..MaxDefault, MaxItems : 0..MaxDefault]

UserTextLimits ==
  [Head : 0..1, Tail : 0..1, MaxLines : (-1)..MaxDefault, MaxBytes : (-1)..MaxDefault]

UserArrayLimits == [Limit : (-1)..MaxDefault, Offset : 0..1]

\* d.MergeTextLimits(user)
MergeTextLimitsMutant(d, user) ==
  [user EXCEPT !.MaxBytes = IF user.MaxBytes <= 0 THEN d.MaxBytes ELSE user.MaxBytes,
               !.MaxLines = IF user.MaxLines = 0 THEN d.MaxLines ELSE user.MaxLines]

MergeTextLimits(d, user) ==
  [user EXCEPT !.MaxBytes = IF user.MaxBytes = 0 THEN d.MaxBytes ELSE user.MaxBytes,
               !.MaxLines = IF user.MaxLines = 0 THEN d.MaxLines ELSE user.MaxLines]

\* d.MergeArrayLimits(user)
MergeArrayLimits(d, user) ==
  [user EXCEPT !.Limit = IF user.Limit = 0 THEN d.MaxItems ELSE user.Limit]

InitMergeSpec ==
  /\ InitExceptMerge
  /\ defaults \in DefaultsValues
  /\ userText \in UserTextLimits
  /\ userArray \in UserArrayLimits
  /\ mergedText = << >>
  /\ mergedArray = << >>

\* what the next call of a Merge method is given
Latest(user, merged) == IF merged = << >> THEN user ELSE merged[Len(merged)]

MergeTextLimitsCall ==
  /\ Len(mergedText) < MaxMerges
  /\ mergedText' = Append(mergedText, MergeTextLimits(defaults, Latest(userText, mergedText)))
  /\ UNCHANGED << exceptMerge, defaults, userText, userArray, mergedArray >>

MergeArrayLimitsCall ==
  /\ Len(mergedArray) < MaxMerges
  /\ mergedArray' = Append(mergedArray, MergeArrayLimits(defaults, Latest(userArray, mergedArray)))
  /\ UNCHANGED << exceptMerge, defaults, userText, userArray, mergedText >>

NextMerge == MergeTextLimitsCall \/ MergeArrayLimitsCall

MergeSpec == InitMergeSpec /\ [][NextMerge]_vars

\* what call i of a Merge method was given
GivenTo(user, merged, i) == IF i = 1 THEN user ELSE merged[i - 1]

\* C33: MergeTextLimits puts the default in place of MaxBytes and of
\* MaxLines only where the value given is zero and returns Head, Tail and
\* every non-zero value as given; MergeArrayLimits puts MaxItems in place of
\* a zero Limit only and returns Offset as given; merging a result again
\* returns it unchanged.
C33_MergeFillsZerosOnly ==
  /\ \A i \in 1..Len(mergedText) :
       LET u == GivenTo(userText, mergedText, i)
           m == mergedText[i]
       IN /\ m.Head = u.Head
          /\ m.Tail = u.Tail
          /\ m.MaxBytes = IF u.MaxBytes = 0 THEN defaults.MaxBytes ELSE u.MaxBytes
          /\ m.MaxLines = IF u.MaxLines = 0 THEN defaults.MaxLines ELSE u.MaxLines
          /\ i > 1 => m = mergedText[1]
  /\ \A i \in 1..Len(mergedArray) :
       LET u == GivenTo(userArray, mergedArray, i)
           m == mergedArray[i]
       IN /\ m.Offset = u.Offset
          /\ m.Limit = IF u.Limit = 0 THEN defaults.MaxItems ELSE u.Limit
          /\ i > 1 => m = mergedArray[1]

\* both were merged twice: a zero MaxBytes and a zero Limit took the
\* defaults, MaxLines, Head and Offset stayed the user's
C33_Witness ==
  /\ defaults = [MaxBytes |-> 1, MaxLines |-> 1, MaxItems |-> 2]
  /\ userText = [Head |-> 1, Tail |-> 0, MaxLines |-> 2, MaxBytes |-> 0]
  /\ userArray = [Limit |-> 0, Offset |-> 1]
  /\ Len(mergedText) = 2
  /\ Len(mergedArray) = 2
  /\ mergedText[2] = [Head |-> 1, Tail |-> 0, MaxLines |-> 2, MaxBytes |-> 1]
  /\ mergedArray[2] = [Limit |-> 2, Offset |-> 1]

(***************************************************************************)
(* MappingBuilder, as the builder a PluginBuilder embeds.  Its methods are *)
(* called in any order, on any entry builder handed out so far; the two    *)
(* Build methods are called once the declarations are made.                *)
(***************************************************************************)
MaxCalls == 3

\* BuiltinGrep, BuiltinRead, BuiltinWrite
BuiltinNames == {"Grep", "Read", "Write"}

\* Go's < on these strings: a compares below b
Less(a, b) ==
  \/ a = "Grep" /\ b \in {"Read", "Write"}
  \/ a = "Read" /\ b = "Write"

\* the arguments the callers pass
ExtensionLists == { << ".go" >>, << ".go", ".py" >> }

ToolSuggestions ==
  { [Name |-> "lsp_hover", UseWhen |-> "getting type info"],
    [Name |-> "search", UseWhen |-> "searching code"] }

Reasons == {"Use LSP", "Use search"}

\* &mappingEntry{replaces: builtinTool}
NewEntry(builtinTool) ==
  [replaces |-> builtinTool, extensions |-> << >>, tools |-> << >>, reason |-> ""]

\* the Mapping Build makes of entry e
MappingOf(e) ==
  [Replaces |-> e.replaces, Extensions |-> e.extensions, Tools |-> e.tools,
   Reason |-> e.reason]

\* sort.Slice by Replaces: any order of the mappings in which no mapping
\* stands before one whose Replaces is less (the order of equal names is
\* not specified)
SortSliceMutant(ms) == { ms }

SortSlice(ms) ==
  { [i \in 1..Len(ms) |-> ms[p[i]]] : p \in
      { q \in Permutations(1..Len(ms)) :
          \A i, j \in 1..Len(ms) : i < j => ~Less(ms[q[j]].Replaces, ms[q[i]].Replaces) } }

\* MappingBuilder.Build: the MappingFiles it can return
Build(b) ==
  { [Server |-> "lux", Mappings |-> ms] :
      ms \in SortSlice([i \in 1..Len(b) |-> MappingOf(b[i])]) }

\* the declarations are still being made
Declaring == built = << >> /\ plugin = << >> /\ Len(calls) < MaxCalls

\* b.Replaces(builtinTool), or eb.Replaces(builtinTool) on the entry builder
\* of entry via
Replaces(builtinTool, via) ==
  /\ Declaring
  /\ mappings' = Append(mappings, NewEntry(builtinTool))
  /\ calls' = Append(calls, [op |-> "Replaces", entry |-> Len(mappings) + 1,
                             via |-> via, arg |-> builtinTool])
  /\ UNCHANGED << exceptBuilder, built, plugin >>

BuilderReplaces(builtinTool) ==
  /\ Declaring
  /\ Replaces(builtinTool, 0)

EntryReplaces(e, builtinTool) ==
  /\ e \in 1..Len(mappings)
  /\ Replaces(builtinTool, e)

\* eb.ForExtensions(exts...) on the entry builder of entry e
ForExtensions(e, exts) ==
  /\ Declaring
  /\ e \in 1..Len(mappings)
  /\ mappings' = [mappings EXCEPT ![e].extensions = @ \o exts]
  /\ calls' = Append(calls, [op |-> "ForExtensions", entry |-> e, via |-> e, arg |-> exts])
  /\ UNCHANGED << exceptBuilder, built, plugin >>

\* eb.WithTool(name, useWhen)
WithTool(e, tool) ==
  /\ Declaring
  /\ e \in 1..Len(mappings)
  /\ mappings' = [mappings EXCEPT ![e].tools = Append(@, tool)]
  /\ calls' = Append(calls, [op |-> "WithTool", entry |-> e, via |-> e, arg |-> tool])
  /\ UNCHANGED << exceptBuilder, built, plugin >>

\* eb.Because(reason)
Because(e, reason) ==
  /\ Declaring
  /\ e \in 1..Len(mappings)
  /\ mappings' = [mappings EXCEPT ![e].reason = reason]
  /\ calls' = Append(calls, [op |-> "Because", entry |-> e, via |-> e, arg |-> reason])
  /\ UNCHANGED << exceptBuilder, built, plugin >>

\* mf := b.Build()
MappingBuild ==
  /\ built = << >>
  /\ \E mf \in Build(mappings) : built' = << mf >>
  /\ UNCHANGED << exceptBuilder, mappings, calls, plugin >>

\* p := PluginBuilder.Build(): mf := b.mappings.Build(), Mappings: mf.Mappings
PluginBuild ==
  /\ plugin = << >>
  /\ \E mf \in Build(mappings) :
       plugin' = << [Name |-> "lux", Type |-> "stdio", Mappings |-> mf.Mappings] >>
  /\ UNCHANGED << exceptBuilder, mappings, calls, built >>

InitBuilderSpec == InitExceptBuilder /\ InitBuilder

NextBuilder ==
  \/ \E n \in BuiltinNames : BuilderReplaces(n)
  \/ \E e \in 1..MaxCalls, n \in BuiltinNames : EntryReplaces(e, n)
  \/ \E e \in 1..MaxCalls, exts \in ExtensionLists : ForExtensions(e, exts)
  \/ \E e \in 1..MaxCalls, tool \in ToolSuggestions : WithTool(e, tool)
  \/ \E e \in 1..MaxCalls, reason \in Reasons : Because(e, reason)
  \/ MappingBuild
  \/ PluginBuild

BuilderSpec == InitBuilderSpec /\ [][NextBuilder]_vars

\* the calls of op made for entry k, in order
CallsFor(op, k) == SelectSeq(calls, LAMBDA c : c.op = op /\ c.entry = k)

\* the extensions of a sequence of ForExtensions calls, in order
RECURSIVE Flatten(_)
Flatten(cs) == IF cs = << >> THEN << >> ELSE Head(cs).arg \o Flatten(Tail(cs))

\* how many times Replaces was called, on the builder or on an entry builder
ReplacesCalls == Len(SelectSeq(calls, LAMBDA c : c.op = "Replaces"))

\* what the calls declared for the entry of the k-th Replaces call
Declared(k) ==
  [Replaces |-> CallsFor("Replaces", k)[1].arg,
   Extensions |-> Flatten(CallsFor("ForExtensions", k)),
   Tools |-> [i \in 1..Len(CallsFor("WithTool", k)) |-> CallsFor("WithTool", k)[i].arg],
   Reason |-> IF CallsFor("Because", k) = << >> THEN ""
              ELSE CallsFor("Because", k)[Len(CallsFor("Because", k))].arg]

\* ms holds the declared mappings, one per Replaces call, by non-decreasing
\* Replaces name
AsDeclared(ms) ==
  /\ Len(ms) = ReplacesCalls
  /\ \E p \in Permutations(1..ReplacesCalls) :
       \A i \in 1..ReplacesCalls : ms[i] = Declared(p[i])
  /\ \A i, j \in 1..Len(ms) : i < j => ~Less(ms[j].Replaces, ms[i].Replaces)

\* C34: MappingBuilder.Build returns one Mapping per Replaces call, made on
\* the builder or by chaining, in non-decreasing order of Replaces name
\* whatever the order of declaration, each with the extensions and tools
\* (in the order added) and the reason declared on its own entry;
\* PluginBuilder.Build's Mappings are these mappings in such an order too,
\* the very same sequence when no name was declared twice.
C34_BuildSortsDeclared ==
  /\ built # << >> => AsDeclared(built[1].Mappings)
  /\ plugin # << >> => AsDeclared(plugin[1].Mappings)
  /\ (/\ built # << >>
      /\ plugin # << >>
      /\ \A i, j \in 1..Len(mappings) : i # j => mappings[i].replaces # mappings[j].replaces) =>
       plugin[1].Mappings = built[1].Mappings

\* Write declared first, Grep chained after it and given a tool: both Builds
\* list Grep, with its tool, before Write
C34_Witness ==
  /\ Len(calls) = 3
  /\ calls[1].op = "Replaces" /\ calls[1].arg = "Write" /\ calls[1].via = 0
  /\ calls[2].op = "Replaces" /\ calls[2].arg = "Grep" /\ calls[2].via = 1
  /\ calls[3].op = "WithTool" /\ calls[3].entry = 2
  /\ built # << >>
  /\ plugin # << >>
  /\ Len(built[1].Mappings) = 2
  /\ built[1].Mappings[1].Replaces = "Grep"
  /\ built[1].Mappings[1].Tools = << calls[3].arg >>
  /\ built[1].Mappings[2].Replaces = "Write"
  /\ plugin[1].Mappings = built[1].Mappings

(***************************************************************************)
(* nix.Executor: Build called by several goroutines, ClearCache and        *)
(* CachedPath by others.  What cacheMu guards is one step; nix build and   *)
(* findExecutable run outside the lock.                                    *)
(***************************************************************************)
MaxBuilders == 3

MaxClears == 1

Builders == 1..MaxBuilders

Flakes == {"nixpkgs#gopls", "nixpkgs#hello"}

\* the executables a build of the flake can find
BinPaths(flake) ==
  IF flake = "nixpkgs#gopls"
  THEN {"/nix/store/a-gopls/bin/gopls", "/nix/store/b-gopls/bin/gopls"}
  ELSE {"/nix/store/c-hello/bin/hello"}

\* how the part of Build outside the lock ends: cmd.Run fails, the output
\* path is empty, findExecutable fails, or an executable is found
BuildErrors ==
  {"nix build failed", "nix build returned empty path", "no executable found"}

\* a goroutine that has not called Build
Idle == [pc |-> "idle", flake |-> "", binPath |-> "", ret |-> "", err |-> Absent]

\* e.CachedPath(flake): (path, ok)
CachedPath(c, flake) ==
  IF flake \in DOMAIN c THEN [path |-> c[flake], ok |-> TRUE]
  ELSE [path |-> "", ok |-> FALSE]

\* New(): an empty cache; no goroutine has called Build
InitNixSpec ==
  /\ InitExceptNix
  /\ cache = [f \in {} |-> ""]
  /\ builds = [b \in Builders |-> Idle]
  /\ produced = {}
  /\ lateRuns = [f \in Flakes |-> 0]
  /\ clears = 0

\* Build(ctx, flake) up to RUnlock: a hit returns the cached path, a miss
\* goes on to run nix build
BuildCheck(b, flake) ==
  /\ builds[b].pc = "idle"
  /\ builds' = [builds EXCEPT ![b] =
                  IF CachedPath(cache, flake).ok
                  THEN [pc |-> "done", flake |-> flake, binPath |-> "",
                        ret |-> CachedPath(cache, flake).path, err |-> Absent]
                  ELSE [pc |-> "checked", flake |-> flake, binPath |-> "", ret |-> "",
                        err |-> Absent]]
  /\ UNCHANGED << exceptNix, cache, produced, lateRuns, clears >>

\* cmd.Run() starts nix build
BuildStart(b) ==
  /\ builds[b].pc = "checked"
  /\ builds' = [builds EXCEPT ![b].pc = "run"]
  /\ lateRuns' = [lateRuns EXCEPT ![builds[b].flake] =
                    IF builds[b].flake \in DOMAIN cache THEN @ + 1 ELSE @]
  /\ UNCHANGED << exceptNix, cache, produced, clears >>

\* nix build ends, its output is parsed and findExecutable looks for the
\* executable: Build returns an error
BuildFailMutant(b, err) ==
  /\ builds[b].pc = "run"
  /\ builds' = [builds EXCEPT ![b].pc = "done", ![b].err = err]
  /\ cache' = IF err = "no executable found" THEN (builds[b].flake :> "") @@ cache ELSE cache
  /\ UNCHANGED << exceptNix, produced, lateRuns, clears >>

BuildFail(b, err) ==
  /\ builds[b].pc = "run"
  /\ builds' = [builds EXCEPT ![b].pc = "done", ![b].err = err]
  /\ UNCHANGED << exceptNix, cache, produced, lateRuns, clears >>

\* ... or findExecutable returns binPath
BuildFound(b, binPath) ==
  /\ builds[b].pc = "run"
  /\ binPath \in BinPaths(builds[b].flake)
  /\ builds' = [builds EXCEPT ![b].pc = "store", ![b].binPath = binPath]
  /\ produced' = produced \cup { << builds[b].flake, binPath >> }
  /\ UNCHANGED << exceptNix, cache, lateRuns, clears >>

\* Lock; e.cache[flake] = binPath; Unlock; return binPath, nil
BuildStore(b) ==
  /\ builds[b].pc = "store"
  /\ cache' = (builds[b].flake :> builds[b].binPath) @@ cache
  /\ builds' = [builds EXCEPT ![b].pc = "done", ![b].ret = builds[b].binPath]
  /\ UNCHANGED << exceptNix, produced, lateRuns, clears >>

\* e.ClearCache()
ClearCache ==
  /\ clears < MaxClears
  /\ clears' = clears + 1
  /\ cache' = [f \in {} |-> ""]
  /\ lateRuns' = [f \in Flakes |-> 0]
  /\ UNCHANGED << exceptNix, builds, produced >>

NextNix ==
  \/ \E b \in Builders, flake \in Flakes : BuildCheck(b, flake)
  \/ \E b \in Builders : BuildStart(b)
  \/ \E b \in Builders, err \in BuildErrors : BuildFail(b, err)
  \/ \E b \in Builders, flake \in Flakes : \E binPath \in BinPaths(flake) : BuildFound(b, binPath)
  \/ \E b \in Builders : BuildStore(b)
  \/ ClearCache

NixSpec == InitNixSpec /\ [][NextNix]_vars

\* C35: between two ClearCache calls, once a flake's build has succeeded and
\* is cached, nix build is started for that flake at most once more, however
\* the Build calls interleave.  (Read strictly, it is never started again.)
C35_NoRebuildOnceCached == \A f \in DOMAIN lateRuns : lateRuns[f] <= 1

\* a Build is between its call and its return
InFlight(b) == builds[b].pc \in {"checked", "run", "store"}

\* C40: the cache holds only paths that a build found an executable for;
\* the only steps that change it are the store of a build that found its
\* executable and ClearCache, so a Build that fails leaves it, and
\* CachedPath's answers, as they were; when ClearCache returns, CachedPath
\* reports absent for every flake, and with no Build in flight it goes on
\* doing so until a Build is called.
C40_CacheHoldsSuccessesOnly ==
  /\ [](\A f \in DOMAIN cache :
          /\ << f, cache[f] >> \in produced
          /\ CachedPath(cache, f) = [path |-> cache[f], ok |-> TRUE])
  /\ [][ /\ \A b \in DOMAIN builds :
              (builds'[b].err # Absent /\ builds[b].err = Absent) =>
                /\ cache' = cache
                /\ \A f \in Flakes : CachedPath(cache', f) = CachedPath(cache, f)
         /\ cache' # cache =>
              \/ clears' = clears + 1
              \/ \E b \in DOMAIN builds :
                   /\ builds[b].pc = "store"
                   /\ builds'[b].pc = "done"
                   /\ builds'[b].err = Absent
                   /\ cache' = (builds[b].flake :> builds[b].binPath) @@ cache
         /\ clears' = clears + 1 => \A f \in Flakes : ~CachedPath(cache', f).ok
         /\ (cache = [f \in {} |-> ""] /\ \A b \in DOMAIN builds : ~InFlight(b)) =>
              cache' = cache ]_vars

\* one Build failed, one stored its path, and ClearCache was called when
\* both had returned: nothing is cached
C40_Witness ==
  /\ clears = 1
  /\ builds[1].pc = "done"
  /\ builds[1].err = "no executable found"
  /\ builds[2].pc = "done"
  /\ builds[2].ret \in BinPaths(builds[2].flake)
  /\ builds[3].pc = "idle"
  /\ << builds[2].flake, builds[2].ret >> \in produced
  /\ \A f \in Flakes : ~CachedPath(cache, f).ok

(***************************************************************************)
(* Run under shutdown signals: the runtime with a ping request and an      *)
(* initialized notification on the wire, recording which envelopes Read    *)
(* returned when cancellation or Close had already been signalled.         *)
(***************************************************************************)
SignalEnvelopes ==
  { m \in Envelopes : m.method \in {MethodPing, MethodInitialized} /\ m.params = "valid"
                        /\ (m.method = MethodPing <=> m.id # NilID) }

\* a shutdown signal is pending: ctx.Done() or s.done is ready
Signalled == ctxDone \/ done = "closed"

\* transport.Read returns an envelope, whatever was signalled while it was
\* in flight: wg.Add(1) and the task is launched
SignalReadMutant(m) ==
  /\ Alive
  /\ runPc = "read"
  /\ nread < MaxReads
  /\ IF Signalled
     THEN /\ lateReads' = lateReads \cup {nread + 1}
          /\ nread' = nread + 1
          /\ runPc' = "select"
          /\ UNCHANGED << opts, initialized, cause, result, ctxDone, done, closeCalls,
                          closedRunning, faulted, wg, tasks, submitted, written,
                          writeErrs, transportCloses, wroteAfterClose, handleVars,
                          stdioVars, outsideVars >>
     ELSE ReadMessage(m) /\ lateReads' = lateReads
  /\ UNCHANGED << stdin, scanned >>

SignalRead(m) ==
  /\ ReadMessage(m)
  /\ lateReads' = IF Signalled THEN lateReads \cup {nread + 1} ELSE lateReads
  /\ UNCHANGED << stdin, scanned >>

NextSignal ==
  \/ Cancel
  \/ Close
  \/ RunSelect
  \/ \E m \in SignalEnvelopes : SignalRead(m)
  \/ ReadEOF /\ UNCHANGED readerVars
  \/ ReadError /\ UNCHANGED readerVars
  \/ gracefulShutdown
  \/ RunReturn
  \/ \E t \in 1..MaxReads, p \in ProviderOutcomes : TaskHandle(t, p)
  \/ \E t \in 1..MaxReads, ok \in BOOLEAN : TaskWrite(t, ok)

SignalSpec == Init /\ [][NextSignal]_vars

\* the context Run gives the handler tasks is cancelled: the caller's
\* context is, or Run's deferred cancel has run
HandlerCtxDoneMutant == ctxDone \/ runPc \in {"shutdown", "return", "returned"}

HandlerCtxDone == ctxDone \/ runPc = "returned"

\* task t was launched and has not ended
InFlightTask(t) == tasks[t].pc \in {"handle", "write"}

\* C36: every envelope Read has returned has a handler task, launched
\* before Run goes on to shutdown, also when cancellation or Close was
\* signalled before that Read returned; the transport is closed and Run
\* returns only when such a task has ended, as for any other task.
C36_LateReadDispatched ==
  /\ \A t \in 1..MaxReads : (t <= nread) <=> (tasks[t].pc # "none")
  /\ lateReads \subseteq 1..nread
  /\ (transportCloses > 0 \/ runPc \in {"return", "returned"}) =>
       \A t \in 1..nread : tasks[t].pc = "done"
  /\ (runPc = "shutdown" /\ wg = 0) => \A t \in 1..nread : tasks[t].pc = "done"

\* Close was called while the first Read was in flight; that Read then
\* returned a request, which was answered before Run returned nil
C36_Witness ==
  /\ 1 \in lateReads
  /\ ~ctxDone
  /\ done = "closed"
  /\ cause = "done"
  /\ Returned
  /\ nread = 1
  /\ Len(submitted) = 1
  /\ Len(written) = 1
  /\ written[1].id = submitted[1].id

\* C37: the context given to the handler tasks is cancelled only when the
\* caller's context is, or once Run has waited for every task, closed the
\* transport and returned: while a task is in flight a shutdown begun by
\* end-of-stream, a read error or Close leaves it uncancelled, the transport
\* is not closed and Run has not returned.
C37_ShutdownKeepsTaskContext ==
  /\ (HandlerCtxDone /\ ~ctxDone) =>
       /\ \A t \in 1..MaxReads : ~InFlightTask(t)
       /\ wg = 0
       /\ transportCloses = 1
  /\ (\E t \in 1..MaxReads : InFlightTask(t)) =>
       /\ ~Returned
       /\ runPc # "return"
       /\ transportCloses = 0
       /\ wg > 0
       /\ HandlerCtxDone => ctxDone
  /\ Returned => \A t \in 1..nread : tasks[t].pc = "done"

\* end-of-stream began the shutdown while a handler task is still running:
\* Run waits, the task's context is live and the transport is open
C37_Witness ==
  /\ cause = "eof"
  /\ runPc = "shutdown"
  /\ ~ctxDone
  /\ done = "open"
  /\ InFlightTask(1)
  /\ ~HandlerCtxDone
  /\ transportCloses = 0

\* the last Register call for name, or 0
LastRegister(name) ==
  LET at == { i \in 1..Len(registered) : registered[i].name = name }
  IN IF at = {} THEN 0 ELSE CHOOSE i \in at : \A j \in at : j <= i

\* C38: after any Register calls ListTools returns one descriptor per call,
\* in the order of the calls, a name registered twice being listed twice;
\* every listed name has a handler; and CallTool for a registered name runs
\* the handler given to the last Register call for that name and returns
\* what that handler returns.
C38_ListAllCallLatest ==
  /\ [](/\ Len(ListTools(registry)) = Len(registered)
        /\ \A i \in 1..Len(registered) :
             /\ ListTools(registry)[i] = registered[i].name
             /\ registered[i].name \in DOMAIN registry.handlers
        /\ \A name \in CallNames :
             LastRegister(name) # 0 =>
               /\ CallTool(registry, name).ran =
                    [tag |-> LastRegister(name),
                     outcome |-> registered[LastRegister(name)].outcome]
               /\ CallTool(registry, name) = HandlerReturn(CallTool(registry, name).ran))
  /\ [][ (called' # called /\ called' # NoCall /\ LastRegister(called'.name) # 0) =>
           /\ called'.ran.tag = LastRegister(called'.name)
           /\ called'.ran.outcome = registered[LastRegister(called'.name)].outcome
           /\ called'.err = HandlerReturn(called'.ran).err
           /\ called'.result = HandlerReturn(called'.ran).result ]_vars

\* echo was registered twice, with a handler that succeeds and then with one
\* that fails: both are listed, and a call ran the second
C38_Witness ==
  /\ registered = << [name |-> "echo", outcome |-> "ok"],
                     [name |-> "grep", outcome |-> "ok"],
                     [name |-> "echo", outcome |-> "error"] >>
  /\ ListTools(registry) = << "echo", "grep", "echo" >>
  /\ called.name = "echo"
  /\ called.ran = [tag |-> 3, outcome |-> "error"]
  /\ called.err = ProviderErrText
  /\ out.resp.code = InternalError

(***************************************************************************)
(* ResourceRegistry as the server's resource provider.  A reader is known  *)
(* by the call that passed it (its ordinal among the registrations).       *)
(***************************************************************************)
MaxResources == 3

ResourceURIs == {"file:///a.txt", "file:///b.txt"}

\* the URIs clients ask for
ReadURIs == ResourceURIs \cup {"file:///c.txt"}

ResourceTemplates == {"file:///{name}"}

\* the URI is an instance of the template
MatchesTemplate(uri, template) == template = "file:///{name}" /\ uri \in ReadURIs

\* what a ResourceReader returns: a result or a Go error
ReaderOutcomes == {"ok", "error"}

\* no reader: 0 is no registration's ordinal
NoReader == 0

\* ReadResource is not called
NoRead == [uri |-> "", ok |-> FALSE, err |-> "", ran |-> NoReader]

\* NewResourceRegistry
NewResourceRegistry ==
  [resources |-> << >>, templates |-> << >>, readers |-> [u \in {} |-> NoReader]]

\* registrations so far
Registrations == Len(resourceCalls)

\* what the reader passed by registration n returns
ReaderOutcome(n) == resourceCalls[n].outcome

\* r.ReadResource(ctx, uri): whether a result is returned, the error, and
\* the reader that ran
ReadResource(r, uri) ==
  IF uri \notin DOMAIN r.readers
  THEN [ok |-> FALSE, err |-> "unknown resource: " \o uri, ran |-> NoReader]
  ELSE IF ReaderOutcome(r.readers[uri]) = "ok"
  THEN [ok |-> TRUE, err |-> Absent, ran |-> r.readers[uri]]
  ELSE [ok |-> FALSE, err |-> ProviderErrText, ran |-> r.readers[uri]]

\* the server was built with the registry as Options.Resources
InitResourceSpec ==
  /\ opts \in { o \in Options : o.Resources }
  /\ InitRun
  /\ InitHandle
  /\ InitStdio
  /\ InitReader
  /\ InitText
  /\ InitRegistry
  /\ InitArray
  /\ InitMerge
  /\ InitBuilder
  /\ InitNix
  /\ resources = NewResourceRegistry
  /\ resourceCalls = << >>
  /\ readResult = NoRead

\* r.RegisterResource(resource, reader)
RegisterResource(uri, outcome) ==
  /\ Registrations < MaxResources
  /\ ~out.panicked
  /\ resources' = [resources EXCEPT
                     !.resources = Append(@, uri),
                     !.readers = (uri :> (Registrations + 1)) @@ @]
  /\ resourceCalls' = Append(resourceCalls,
                             [op |-> "RegisterResource", uri |-> uri, outcome |-> outcome])
  /\ UNCHANGED << exceptResource, readResult >>

\* r.RegisterTemplate(template, reader): the reader is dropped
RegisterTemplateMutant(template, outcome) ==
  /\ Registrations < MaxResources
  /\ ~out.panicked
  /\ resources' = [resources EXCEPT
                     !.templates = Append(@, template),
                     !.readers = [u \in { v \in ReadURIs : MatchesTemplate(v, template) }
                                    |-> Registrations + 1] @@ @]
  /\ resourceCalls' = Append(resourceCalls,
                             [op |-> "RegisterTemplate", uri |-> template, outcome |-> outcome])
  /\ UNCHANGED << exceptResource, readResult >>

RegisterTemplate(template, outcome) ==
  /\ Registrations < MaxResources
  /\ ~out.panicked
  /\ resources' = [resources EXCEPT !.templates = Append(@, template)]
  /\ resourceCalls' = Append(resourceCalls,
                             [op |-> "RegisterTemplate", uri |-> template, outcome |-> outcome])
  /\ UNCHANGED << exceptResource, readResult >>

\* the resources/read envelopes clients send
ResourceReadEnvelopes ==
  [id : Ids \cup {NilID}, method : {MethodResourcesRead}, params : ParamShapes]

\* Handle(ctx, m) for a resources/read envelope whose params, where they
\* decode, hold the uri: handleResourcesRead reaches ReadResource past the
\* provider check and the decoding of params, and answers with its result
\* or its error
ResourcesRead(m, uri) ==
  LET r == ReadResource(resources, uri)
      p == IF r.err = Absent THEN "ok" ELSE "error"
  IN /\ ~out.panicked
     /\ req' = m
     /\ prov' = p
     /\ wasInit' = initialized
     /\ out' = handleResourcesRead(m, opts, p)
     /\ readResult' = IF opts.Resources /\ Unmarshal(m.params)
                      THEN [uri |-> uri, ok |-> r.ok, err |-> r.err, ran |-> r.ran]
                      ELSE NoRead
     /\ UNCHANGED << opts, initialized, runVars, ndisp, stdioVars, readerVars, textVars,
                     registryVars, arrayVars, mergeVars, builderVars, nixVars,
                     resources, resourceCalls >>

NextResource ==
  \/ \E uri \in ResourceURIs, outcome \in ReaderOutcomes : RegisterResource(uri, outcome)
  \/ \E template \in ResourceTemplates, outcome \in ReaderOutcomes :
       RegisterTemplate(template, outcome)
  \/ \E m \in ResourceReadEnvelopes, uri \in ReadURIs : ResourcesRead(m, uri)

ResourceSpec == InitResourceSpec /\ [][NextResource]_vars

\* the URIs passed to RegisterResource so far
RegisteredURIs ==
  { resourceCalls[i].uri : i \in { j \in 1..Registrations :
                                     resourceCalls[j].op = "RegisterResource" } }

\* the templates passed to RegisterTemplate so far, in order
RegisteredTemplates ==
  LET at == SelectSeq([i \in 1..Registrations |-> i],
                      LAMBDA i : resourceCalls[i].op = "RegisterTemplate")
  IN [k \in 1..Len(at) |-> resourceCalls[at[k]].uri]

\* a resources/read request was handled and its params held a uri
ResourceRead ==
  /\ req.method = MethodResourcesRead
  /\ IsRequest(req)
  /\ Unmarshal(req.params)
  /\ readResult # NoRead

\* C39: RegisterTemplate appends the template to the template list and leaves
\* the resources and the reader table as they were, so the reader table holds
\* exactly the URIs given to RegisterResource and each reader in it was given
\* to RegisterResource; ReadResource returns a result only for such a URI,
\* and for any other URI, instances of a registered template included, it
\* runs no reader and returns the error 'unknown resource: <uri>', which a
\* resources/read request gets as an InternalError response.
C39_TemplateReaderDropped ==
  /\ [](/\ DOMAIN resources.readers = RegisteredURIs
        /\ \A u \in DOMAIN resources.readers :
             /\ resources.readers[u] \in 1..Registrations
             /\ resourceCalls[resources.readers[u]].op = "RegisterResource"
             /\ resourceCalls[resources.readers[u]].uri = u
        /\ resources.templates = RegisteredTemplates
        /\ \A u \in ReadURIs :
             /\ ReadResource(resources, u).ok => u \in RegisteredURIs
             /\ u \notin RegisteredURIs =>
                  ReadResource(resources, u) =
                    [ok |-> FALSE, err |-> "unknown resource: " \o u, ran |-> NoReader]
        /\ ResourceRead =>
             /\ readResult.ok => readResult.uri \in RegisteredURIs
             /\ readResult.uri \notin RegisteredURIs =>
                  /\ ~readResult.ok
                  /\ readResult.err = "unknown resource: " \o readResult.uri
                  /\ readResult.ran = NoReader
                  /\ ~out.panicked
                  /\ out.err = Absent
                  /\ out.resp.id = req.id
                  /\ out.resp.result = Absent
                  /\ out.resp.code = InternalError)
  /\ [][ (resourceCalls' # resourceCalls
           /\ resourceCalls'[Len(resourceCalls')].op = "RegisterTemplate") =>
           /\ resources'.readers = resources.readers
           /\ resources'.resources = resources.resources
           /\ resources'.templates =
                Append(resources.templates, resourceCalls'[Len(resourceCalls')].uri) ]_vars

\* a resource and then a template were registered, each with a reader that
\* succeeds, and a request read a URI that only the template matches
C39_Witness ==
  /\ resourceCalls = << [op |-> "RegisterResource", uri |-> "file:///a.txt", outcome |-> "ok"],
                        [op |-> "RegisterTemplate", uri |-> "file:///{name}", outcome |-> "ok"] >>
  /\ MatchesTemplate("file:///b.txt", resources.templates[1])
  /\ DOMAIN resources.readers = {"file:///a.txt"}
  /\ ResourceRead
  /\ req.id = 1
  /\ readResult = [uri |-> "file:///b.txt", ok |-> FALSE,
                   err |-> "unknown resource: file:///b.txt", ran |-> NoReader]
  /\ out.resp.code = InternalError

====
